---- MODULE Spec2Model ----
(***************************************************************************)
(* A model of the RLP codec of package rlp: the raw-value helpers          *)
(* (raw.go), the decoding Stream (decode.go), the encoding buffer          *)
(* (encbuffer.go) and the type-directed writers / decoders (encode.go,     *)
(* decode.go).                                                             *)
(*                                                                         *)
(* Representation of Go values:                                            *)
(*   byte      an integer in 0..255                                        *)
(*   []byte    a sequence of bytes                                         *)
(*   uint64    the tuple of its 8 bytes, most significant first, so that   *)
(*             the full 64-bit width (wrap-around included) is kept; U64Of *)
(*             and U64ToNat convert from and to the naturals               *)
(*   error     a string, "nil" for no error                                *)
(***************************************************************************)
EXTENDS Integers, Sequences, FiniteSets, TLC

VARIABLES
    s,       \* the decoding Stream (decode.go, type Stream), its reader included
    opened,  \* ghost: one record per list the Stream has entered and not left
    last,    \* ghost: the last Stream operation, its result and the state before it
    buf,     \* the encoding buffer (encbuffer.go, type encBuffer)
    lstack,  \* ghost: indices returned by list() and not yet closed, innermost last
    ref,     \* ghost: reference output, one byte string per nesting level
    er,      \* the reader returned by EncodeToReader (encbuffer.go, type encReader)
    cin,     \* codec check: the input case (a typed value or an input byte string)
    cout     \* codec check: the result of the operation applied to cin

vars == <<s, opened, last, buf, lstack, ref, er, cin, cout>>

----------------------------------------------------------------------------
(* Bytes and byte sequences *)


Min(a, b) == IF a < b THEN a ELSE b

\* b[from:] of a Go slice, with a 0-based index
Drop(b, n) == SubSeq(b, n + 1, Len(b))

\* b[:n] of a Go slice
Take(b, n) == SubSeq(b, 1, n)

\* n copies of byte x
Fill(n, x) == [i \in 1..n |-> x]

----------------------------------------------------------------------------
(* uint64 arithmetic on the 8-byte big-endian representation *)

U64Zero == <<0, 0, 0, 0, 0, 0, 0, 0>>

\* 256^k for k in 0..3
Pow256(k) == CASE k = 0 -> 1 [] k = 1 -> 256 [] k = 2 -> 65536 [] OTHER -> 16777216

\* uint64(n) for a natural number n < 2^31
U64Of(n) == [i \in 1..8 |-> IF i <= 4 THEN 0 ELSE (n \div Pow256(8 - i)) % 256]


\* the natural number of a small uint64
U64ToNat(x) == x[5] * 16777216 + x[6] * 65536 + x[7] * 256 + x[8]

\* unsigned a < b
RECURSIVE U64LtFrom(_, _, _)
U64LtFrom(a, b, i) ==
    IF i > 8 THEN FALSE
    ELSE IF a[i] # b[i] THEN a[i] < b[i]
    ELSE U64LtFrom(a, b, i + 1)

U64Lt(a, b) == U64LtFrom(a, b, 1)
U64Gt(a, b) == U64Lt(b, a)

\* a - b modulo 2^64 (Go's unsigned subtraction wraps around)
RECURSIVE U64SubFrom(_, _, _, _)
U64SubFrom(a, b, i, borrow) ==
    IF i = 0 THEN <<>>
    ELSE LET d == a[i] - b[i] - borrow
         IN  U64SubFrom(a, b, i - 1, IF d < 0 THEN 1 ELSE 0)
                 \o <<IF d < 0 THEN d + 256 ELSE d>>

U64Sub(a, b) == U64SubFrom(a, b, 8, 0)

\* number of leading zero bytes of an uint64, at most 7
RECURSIVE U64LeadingZeros(_, _)
U64LeadingZeros(x, i) ==
    IF i = 8 \/ x[i] # 0 THEN i - 1 ELSE U64LeadingZeros(x, i + 1)

----------------------------------------------------------------------------
(* encode.go: header and integer helpers *)

\* intsize: the minimal number of bytes needed to store i
intsize(i) == 8 - U64LeadingZeros(i, 1)

\* putint: the minimal big-endian bytes of i (the bytes written to b[0:size])
putint(i) == Drop(i, 8 - intsize(i))

\* headsize: the size of a list or string header for a value of the given size
headsize(size) == IF U64Lt(size, U64Of(56)) THEN 1 ELSE 1 + intsize(size)

\* puthead: the header bytes written to buf[0:n]
puthead(smalltag, largetag, size) ==
    IF U64Lt(size, U64Of(56))
    THEN <<smalltag + U64ToNat(size)>>
    ELSE <<largetag + intsize(size)>> \o putint(size)

----------------------------------------------------------------------------
(* decode.go: Kind *)

Byte == 0
String == 1
List == 2

----------------------------------------------------------------------------
(* raw.go: stateless functions over encoded byte slices.                   *)
(* An operator named XOf / XOn is the part of function X that follows a    *)
(* call: it takes the call's result as a parameter.                        *)

\* readSize, after the length check: sz is the big-endian value of b[:slen]
readSizeOf(b, sz) ==
    IF U64Lt(sz, U64Of(56)) \/ b[1] = 0
    THEN [size |-> U64Zero, err |-> "ErrCanonSize"]
    ELSE [size |-> sz, err |-> "nil"]

\* readSize(b, slen): the big-endian size in the first slen bytes of b
readSize(b, slen) ==
    IF slen > Len(b) THEN [size |-> U64Zero, err |-> "ErrUnexpectedEOF"]
    ELSE readSizeOf(b, Fill(8 - slen, 0) \o Take(b, slen))

rawKindFail(e) == [k |-> 0, tagsize |-> 0, contentsize |-> U64Zero, err |-> e]

\* readKind of raw.go, long forms: the header with the size readSize returned
rawLongHeader(k, slen, r) ==
    [k |-> k, tagsize |-> slen + 1, contentsize |-> r.size, err |-> r.err]

\* readKind of raw.go, the switch on the first byte
rawHeader(b) ==
    IF b[1] < 128 THEN
        [k |-> Byte, tagsize |-> 0, contentsize |-> U64Of(1), err |-> "nil"]
    ELSE IF b[1] < 184 THEN
        IF b[1] - 128 = 1 /\ Len(b) > 1 /\ b[2] < 128
        THEN rawKindFail("ErrCanonSize")
        ELSE [k |-> String, tagsize |-> 1, contentsize |-> U64Of(b[1] - 128), err |-> "nil"]
    ELSE IF b[1] < 192 THEN
        rawLongHeader(String, b[1] - 183, readSize(Drop(b, 1), b[1] - 183))
    ELSE IF b[1] < 248 THEN
        [k |-> List, tagsize |-> 1, contentsize |-> U64Of(b[1] - 192), err |-> "nil"]
    ELSE
        rawLongHeader(List, b[1] - 247, readSize(Drop(b, 1), b[1] - 247))

\* variant of rawCheckHeader that reports a content size beyond the input as
\* the unexpected end of the input
rawCheckHeader_EOF(b, hd) ==
    IF hd.err # "nil" THEN rawKindFail(hd.err)
    ELSE IF U64Gt(hd.contentsize, U64Of(Len(b) - hd.tagsize))
    THEN rawKindFail("ErrUnexpectedEOF")
    ELSE hd

\* readKind of raw.go, the checks after the switch
rawCheckHeader(b, hd) ==
    IF hd.err # "nil" THEN rawKindFail(hd.err)
    ELSE IF U64Gt(hd.contentsize, U64Of(Len(b) - hd.tagsize))
    THEN rawKindFail("ErrValueTooLarge")
    ELSE hd

\* readKind(buf) of raw.go: kind, tag size and content size of the first value
rawReadKind(b) ==
    IF Len(b) = 0 THEN rawKindFail("ErrUnexpectedEOF")
    ELSE rawCheckHeader(b, rawHeader(b))

SplitOf(b, h) ==
    IF h.err # "nil"
    THEN [k |-> 0, content |-> <<>>, rest |-> b, err |-> h.err]
    ELSE [k |-> h.k,
          content |-> SubSeq(b, h.tagsize + 1, h.tagsize + U64ToNat(h.contentsize)),
          rest |-> Drop(b, h.tagsize + U64ToNat(h.contentsize)),
          err |-> "nil"]

\* Split(b): kind and content of the first value, and the bytes after it
Split(b) == SplitOf(b, rawReadKind(b))

SplitStringOf(b, r) ==
    IF r.err # "nil" THEN [content |-> <<>>, rest |-> b, err |-> r.err]
    ELSE IF r.k = List THEN [content |-> <<>>, rest |-> b, err |-> "ErrExpectedString"]
    ELSE [content |-> r.content, rest |-> r.rest, err |-> "nil"]

\* SplitString(b)
SplitString(b) == SplitStringOf(b, Split(b))

\* SplitUint64, the default case: z is the result of readSize on the content
SplitUint64Multi(b, r, z) ==
    IF z.err # "nil"
    THEN [x |-> U64Zero, rest |-> b, err |-> "ErrCanonInt"]
    ELSE [x |-> z.size, rest |-> r.rest, err |-> "nil"]

SplitUint64Of(b, r) ==
    IF r.err # "nil" THEN [x |-> U64Zero, rest |-> b, err |-> r.err]
    ELSE IF Len(r.content) = 0 THEN [x |-> U64Zero, rest |-> r.rest, err |-> "nil"]
    ELSE IF Len(r.content) = 1 THEN
        IF r.content[1] = 0
        THEN [x |-> U64Zero, rest |-> b, err |-> "ErrCanonInt"]
        ELSE [x |-> U64Of(r.content[1]), rest |-> r.rest, err |-> "nil"]
    ELSE IF Len(r.content) > 8 THEN [x |-> U64Zero, rest |-> b, err |-> "errUintOverflow"]
    ELSE SplitUint64Multi(b, r, readSize(r.content, Len(r.content)))

\* SplitUint64(b): the integer at the start of b
SplitUint64(b) == SplitUint64Of(b, SplitString(b))

\* AppendUint64(b, i) with b empty: the RLP encoding of the uint64 i
AppendUint64(i) ==
    IF i = U64Zero THEN <<128>>
    ELSE IF U64Lt(i, U64Of(128)) THEN <<i[8]>>
    ELSE <<128 + intsize(i)>> \o Drop(i, 8 - intsize(i))

----------------------------------------------------------------------------
(* decode.go: the byte source of a Stream *)

\* A reader over an in-memory byte string: data is the whole input, pos the
\* number of bytes delivered so far. known is TRUE for the reader types whose
\* length Reset uses as input limit (*bytes.Reader, *bytes.Buffer,
\* *strings.Reader) and FALSE for any other ByteReader (such as sliceReader).
NewReader(data, known) == [data |-> data, pos |-> 0, known |-> known]

\* Len() of a reader: the number of undelivered bytes
ReaderLen(r) == Len(r.data) - r.pos

----------------------------------------------------------------------------
(* decode.go: Stream *)

\* new(Stream): the zero value of the struct
ZeroStream ==
    [r |-> NewReader(<<>>, FALSE), remaining |-> U64Zero, size |-> U64Zero,
     kinderr |-> "nil", stack |-> <<>>, kind |-> 0, byteval |-> 0, limited |-> FALSE]

\* variant of ResetContext that leaves the stack of open lists in place
ResetContext_KeepStack(st, r) ==
    [st EXCEPT !.r = r, !.size = U64Zero, !.kind = -1, !.kinderr = "nil", !.byteval = 0]

\* Stream.Reset, the part that clears the decoding context
ResetContext(st, r) ==
    [st EXCEPT !.r = r, !.stack = <<>>, !.size = U64Zero, !.kind = -1,
               !.kinderr = "nil", !.byteval = 0]

\* Stream.Reset(r, inputLimit)
Reset(st, r, inputLimit) ==
    IF inputLimit > 0
    THEN ResetContext([st EXCEPT !.remaining = U64Of(inputLimit), !.limited = TRUE], r)
    ELSE IF r.known
    THEN ResetContext([st EXCEPT !.remaining = U64Of(ReaderLen(r)), !.limited = TRUE], r)
    ELSE ResetContext([st EXCEPT !.limited = FALSE], r)

\* NewStream(r, inputLimit)
NewStream(r, inputLimit) == Reset(ZeroStream, r, inputLimit)

\* Stream.listLimit: the amount of data remaining in the innermost list
listLimit(st) ==
    IF Len(st.stack) = 0 THEN [inList |-> FALSE, limit |-> U64Zero]
    ELSE [inList |-> TRUE, limit |-> st.stack[Len(st.stack)]]

\* variant of willReadLimited that ignores the input limit
willReadLimited_NoLimit(st, n) == [s |-> st, err |-> "nil"]

\* Stream.willRead, the check against the input limit
willReadLimited(st, n) ==
    IF st.limited
    THEN IF U64Gt(n, st.remaining) THEN [s |-> st, err |-> "ErrValueTooLarge"]
         ELSE [s |-> [st EXCEPT !.remaining = U64Sub(st.remaining, n)], err |-> "nil"]
    ELSE [s |-> st, err |-> "nil"]

\* Stream.willRead, the check against the innermost list (s.kind already reset)
willReadInList(st, n) ==
    IF Len(st.stack) > 0
    THEN IF U64Gt(n, st.stack[Len(st.stack)]) THEN [s |-> st, err |-> "ErrElemTooLarge"]
         ELSE willReadLimited([st EXCEPT !.stack[Len(st.stack)] = U64Sub(@, n)], n)
    ELSE willReadLimited(st, n)

\* Stream.willRead(n): check n against the size limits and update them
willRead(st, n) == willReadInList([st EXCEPT !.kind = -1], n)

\* Stream.readFull, the read loop after willRead returned w
readFullOn(w, n) ==
    IF w.err # "nil" THEN [s |-> w.s, b |-> <<>>, err |-> w.err]
    ELSE IF U64Lt(U64Of(ReaderLen(w.s.r)), n)
    THEN [s |-> [w.s EXCEPT !.r.pos = Len(w.s.r.data)],
          b |-> Drop(w.s.r.data, w.s.r.pos),
          err |-> "ErrUnexpectedEOF"]
    ELSE [s |-> [w.s EXCEPT !.r.pos = @ + U64ToNat(n)],
          b |-> SubSeq(w.s.r.data, w.s.r.pos + 1, w.s.r.pos + U64ToNat(n)),
          err |-> "nil"]

\* Stream.readFull(buf) for a buffer of n bytes (n an uint64): the bytes read
readFull(st, n) == readFullOn(willRead(st, n), n)

\* Stream.readByte, the read after willRead returned w
readByteOn(w) ==
    IF w.err # "nil" THEN [s |-> w.s, b |-> 0, err |-> w.err]
    ELSE IF ReaderLen(w.s.r) = 0 THEN [s |-> w.s, b |-> 0, err |-> "ErrUnexpectedEOF"]
    ELSE [s |-> [w.s EXCEPT !.r.pos = @ + 1], b |-> w.s.r.data[w.s.r.pos + 1], err |-> "nil"]

\* Stream.readByte: read a single byte from the underlying reader
readByte(st) == readByteOn(willRead(st, U64Of(1)))

\* Stream.readUint, case 1
readUintByte(rb) == [s |-> rb.s, v |-> U64Of(rb.b), err |-> rb.err]

\* Stream.readUint, default case: rf is the result of readFull(buffer[start:])
readUintFull(rf, size) ==
    IF rf.err # "nil" THEN [s |-> rf.s, v |-> U64Zero, err |-> rf.err]
    ELSE IF rf.b[1] = 0 THEN [s |-> rf.s, v |-> U64Zero, err |-> "ErrCanonSize"]
    ELSE [s |-> rf.s, v |-> Fill(8 - size, 0) \o rf.b, err |-> "nil"]

\* Stream.readUint(size): a big-endian integer of size bytes, size in 0..8
readUint(st, size) ==
    IF size = 0 THEN [s |-> [st EXCEPT !.kind = -1], v |-> U64Zero, err |-> "nil"]
    ELSE IF size = 1 THEN readUintByte(readByte(st))
    ELSE readUintFull(readFull(st, U64Of(size)), size)

\* Stream.readKind, long forms: ru is the result of readUint
readKindLong(kind, ru) ==
    [s |-> ru.s, kind |-> kind, size |-> ru.v,
     err |-> IF ru.err = "nil" /\ U64Lt(ru.v, U64Of(56)) THEN "ErrCanonSize" ELSE ru.err]

\* Stream.readKind, after readByte returned rb
readKindOn(rb) ==
    IF rb.err # "nil" THEN
        [s |-> rb.s, kind |-> 0, size |-> U64Zero,
         err |-> IF Len(rb.s.stack) = 0 /\ rb.err \in {"ErrUnexpectedEOF", "ErrValueTooLarge"}
                 THEN "EOF" ELSE rb.err]
    ELSE IF rb.b < 128 THEN
        [s |-> [rb.s EXCEPT !.byteval = rb.b], kind |-> Byte, size |-> U64Zero, err |-> "nil"]
    ELSE IF rb.b < 184 THEN
        [s |-> [rb.s EXCEPT !.byteval = 0], kind |-> String,
         size |-> U64Of(rb.b - 128), err |-> "nil"]
    ELSE IF rb.b < 192 THEN
        readKindLong(String, readUint([rb.s EXCEPT !.byteval = 0], rb.b - 183))
    ELSE IF rb.b < 248 THEN
        [s |-> [rb.s EXCEPT !.byteval = 0], kind |-> List,
         size |-> U64Of(rb.b - 192), err |-> "nil"]
    ELSE
        readKindLong(List, readUint([rb.s EXCEPT !.byteval = 0], rb.b - 247))

\* Stream.readKind: read the type tag (and the size bytes) of the next value
readKind(st) == readKindOn(readByte(st))

\* Stream.Kind, the size check after readKind: ll is the list limit taken
\* before the header was read
KindErr(ll, rk) ==
    IF rk.err # "nil" THEN rk.err
    ELSE IF ll.inList /\ U64Gt(rk.size, ll.limit) THEN "ErrElemTooLarge"
    ELSE IF rk.s.limited /\ U64Gt(rk.size, rk.s.remaining) THEN "ErrValueTooLarge"
    ELSE "nil"

KindCache(rk, kerr) ==
    [s |-> [rk.s EXCEPT !.kind = rk.kind, !.size = rk.size, !.kinderr = kerr],
     kind |-> rk.kind, size |-> rk.size, err |-> kerr]

KindOn(ll, rk) == KindCache(rk, KindErr(ll, rk))

\* variant of Kind without the check for the end of the list
Kind_NoEOLCheck(st) ==
    IF st.kind >= 0
    THEN [s |-> st, kind |-> st.kind, size |-> st.size, err |-> st.kinderr]
    ELSE KindOn(listLimit(st), readKind(st))

\* Stream.Kind: kind and size of the next value, cached until it is consumed
Kind(st) ==
    IF st.kind >= 0
    THEN [s |-> st, kind |-> st.kind, size |-> st.size, err |-> st.kinderr]
    ELSE IF Len(st.stack) > 0 /\ st.stack[Len(st.stack)] = U64Zero
    THEN [s |-> st, kind |-> 0, size |-> U64Zero, err |-> "EOL"]
    ELSE KindOn(listLimit(st), readKind(st))

\* variant of BytesRead without the check of one-byte strings
BytesRead_NoCanonCheck(k, rf) ==
    IF rf.err # "nil" THEN [s |-> rf.s, b |-> <<>>, err |-> rf.err]
    ELSE [s |-> rf.s, b |-> rf.b, err |-> "nil"]

\* Stream.Bytes, String case: rf is the result of readFull
BytesRead(k, rf) ==
    IF rf.err # "nil" THEN [s |-> rf.s, b |-> <<>>, err |-> rf.err]
    ELSE IF k.size = U64Of(1) /\ rf.b[1] < 128
    THEN [s |-> rf.s, b |-> <<>>, err |-> "ErrCanonSize"]
    ELSE [s |-> rf.s, b |-> rf.b, err |-> "nil"]

\* variant of BytesOn that leaves the kind of a single byte cached
BytesOn_KeepKind(k) ==
    IF k.err # "nil" THEN [s |-> k.s, b |-> <<>>, err |-> k.err]
    ELSE IF k.kind = Byte THEN [s |-> k.s, b |-> <<k.s.byteval>>, err |-> "nil"]
    ELSE IF k.kind = String THEN BytesRead(k, readFull(k.s, k.size))
    ELSE [s |-> k.s, b |-> <<>>, err |-> "ErrExpectedString"]

BytesOn(k) ==
    IF k.err # "nil" THEN [s |-> k.s, b |-> <<>>, err |-> k.err]
    ELSE IF k.kind = Byte
    THEN [s |-> [k.s EXCEPT !.kind = -1], b |-> <<k.s.byteval>>, err |-> "nil"]
    ELSE IF k.kind = String THEN BytesRead(k, readFull(k.s, k.size))
    ELSE [s |-> k.s, b |-> <<>>, err |-> "ErrExpectedString"]

\* Stream.Bytes: read an RLP string and return its contents
Bytes(st) == BytesOn(Kind(st))

\* Stream.ReadBytes, String case after readFull returned rf
ReadBytesRead(k, rf) ==
    IF rf.err # "nil" THEN [s |-> rf.s, err |-> rf.err]
    ELSE IF k.size = U64Of(1) /\ rf.b[1] < 128 THEN [s |-> rf.s, err |-> "ErrCanonSize"]
    ELSE [s |-> rf.s, err |-> "nil"]

ReadBytesOn(k, len) ==
    IF k.err # "nil" THEN [s |-> k.s, err |-> k.err]
    ELSE IF k.kind = Byte
    THEN IF len # 1 THEN [s |-> k.s, err |-> "input value has wrong size"]
         ELSE [s |-> [k.s EXCEPT !.kind = -1], err |-> "nil"]
    ELSE IF k.kind = String
    THEN IF U64Of(len) # k.size THEN [s |-> k.s, err |-> "input value has wrong size"]
         ELSE ReadBytesRead(k, readFull(k.s, k.size))
    ELSE [s |-> k.s, err |-> "ErrExpectedString"]

\* Stream.ReadBytes(b) for a b of length len
ReadBytes(st, len) == ReadBytesOn(Kind(st), len)

\* Stream.Raw, after the content was read: a new header in front of it
RawRead(k, rf) ==
    IF rf.err # "nil" THEN [s |-> rf.s, b |-> <<>>, err |-> rf.err]
    ELSE [s |-> rf.s,
          b |-> (IF k.kind = String THEN puthead(128, 183, k.size)
                                    ELSE puthead(192, 247, k.size)) \o rf.b,
          err |-> "nil"]

RawOn(k) ==
    IF k.err # "nil" THEN [s |-> k.s, b |-> <<>>, err |-> k.err]
    ELSE IF k.kind = Byte
    THEN [s |-> [k.s EXCEPT !.kind = -1], b |-> <<k.s.byteval>>, err |-> "nil"]
    ELSE RawRead(k, readFull(k.s, k.size))

\* Stream.Raw: read a raw encoded value including its type information
Raw(st) == RawOn(Kind(st))

\* variant of uintRead that accepts a one-byte string below 128
uintRead_NoCanonCheck(k, ru) ==
    IF ru.err = "ErrCanonSize" THEN [s |-> ru.s, v |-> U64Zero, err |-> "ErrCanonInt"]
    ELSE IF ru.err # "nil" THEN [s |-> ru.s, v |-> U64Zero, err |-> ru.err]
    ELSE [s |-> ru.s, v |-> ru.v, err |-> "nil"]

\* Stream.uint, String case: ru is the result of readUint
uintRead(k, ru) ==
    IF ru.err = "ErrCanonSize" THEN [s |-> ru.s, v |-> U64Zero, err |-> "ErrCanonInt"]
    ELSE IF ru.err # "nil" THEN [s |-> ru.s, v |-> U64Zero, err |-> ru.err]
    ELSE IF U64Gt(k.size, U64Zero) /\ U64Lt(ru.v, U64Of(128))
    THEN [s |-> ru.s, v |-> U64Zero, err |-> "ErrCanonSize"]
    ELSE [s |-> ru.s, v |-> ru.v, err |-> "nil"]

uintOn(k, maxbits) ==
    IF k.err # "nil" THEN [s |-> k.s, v |-> U64Zero, err |-> k.err]
    ELSE IF k.kind = Byte
    THEN IF k.s.byteval = 0 THEN [s |-> k.s, v |-> U64Zero, err |-> "ErrCanonInt"]
         ELSE [s |-> [k.s EXCEPT !.kind = -1], v |-> U64Of(k.s.byteval), err |-> "nil"]
    ELSE IF k.kind = String
    THEN IF U64Gt(k.size, U64Of(maxbits \div 8))
         THEN [s |-> k.s, v |-> U64Zero, err |-> "errUintOverflow"]
         ELSE uintRead(k, readUint(k.s, U64ToNat(k.size)))
    ELSE [s |-> k.s, v |-> U64Zero, err |-> "ErrExpectedString"]

\* Stream.uint(maxbits): read an RLP string of at most maxbits/8 bytes as an integer
uint(st, maxbits) == uintOn(Kind(st), maxbits)

\* Stream.Uint64
Uint64(st) == uint(st, 64)

BoolOn(u) ==
    IF u.err # "nil" THEN [s |-> u.s, v |-> FALSE, err |-> u.err]
    ELSE IF u.v = U64Zero THEN [s |-> u.s, v |-> FALSE, err |-> "nil"]
    ELSE IF u.v = U64Of(1) THEN [s |-> u.s, v |-> TRUE, err |-> "nil"]
    ELSE [s |-> u.s, v |-> FALSE, err |-> "invalid boolean value"]

\* Stream.Bool: read an RLP string of up to one byte as a boolean
Bool(st) == BoolOn(uint(st, 8))

\* Stream.List, the stack update: the inner size is removed from the outer
\* list before it is pushed
ListPush(st, sz) ==
    IF Len(st.stack) > 0
    THEN [st EXCEPT !.stack = Append([@ EXCEPT ![Len(@)] = U64Sub(@, sz)], sz),
                    !.kind = -1, !.size = U64Zero]
    ELSE [st EXCEPT !.stack = Append(@, sz), !.kind = -1, !.size = U64Zero]

ListOn(k) ==
    IF k.err # "nil" THEN [s |-> k.s, size |-> U64Zero, err |-> k.err]
    ELSE IF k.kind # List THEN [s |-> k.s, size |-> U64Zero, err |-> "ErrExpectedList"]
    ELSE [s |-> ListPush(k.s, k.size), size |-> k.size, err |-> "nil"]

\* Stream.List: start decoding an RLP list
List_(st) == ListOn(Kind(st))

\* variant of ListEnd without the errNotAtEOL check
ListEnd_NoEOLCheck(st) ==
    IF Len(st.stack) = 0 THEN [s |-> st, err |-> "errNotInList"]
    ELSE [s |-> [st EXCEPT !.stack = Take(@, Len(@) - 1), !.kind = -1, !.size = U64Zero],
          err |-> "nil"]

\* variant of ListEnd that leaves the cached kind in place
ListEnd_KeepKind(st) ==
    IF Len(st.stack) = 0 THEN [s |-> st, err |-> "errNotInList"]
    ELSE IF U64Gt(st.stack[Len(st.stack)], U64Zero) THEN [s |-> st, err |-> "errNotAtEOL"]
    ELSE [s |-> [st EXCEPT !.stack = Take(@, Len(@) - 1)], err |-> "nil"]

\* Stream.ListEnd: return to the enclosing list
ListEnd(st) ==
    IF Len(st.stack) = 0 THEN [s |-> st, err |-> "errNotInList"]
    ELSE IF U64Gt(st.stack[Len(st.stack)], U64Zero) THEN [s |-> st, err |-> "errNotAtEOL"]
    ELSE [s |-> [st EXCEPT !.stack = Take(@, Len(@) - 1), !.kind = -1, !.size = U64Zero],
          err |-> "nil"]

\* Stream.MoreDataInList
MoreDataInList(st) == U64Gt(listLimit(st).limit, U64Zero)

----------------------------------------------------------------------------
(* encbuffer.go: encBuffer *)

\* no error, as a value of the tuples that stand for the errors of the encoder
NoErr == <<"nil">>

\* the buffer after encBuffer.reset(). werr is not a field of encBuffer: it is
\* the error that the writer running on the buffer has returned, NoErr while
\* none has
EmptyBuf == [str |-> <<>>, lheads |-> <<>>, lhsize |-> 0, werr |-> NoErr]

\* encBuffer.reset()
reset(b) == [b EXCEPT !.lhsize = 0, !.str = <<>>, !.lheads = <<>>]

\* getEncBuffer(), b being the buffer that encBufferPool.Get() returns
getEncBuffer(b) == reset(b)

\* encBuffer.size: the length of the encoded data
size(b) == Len(b.str) + b.lhsize

\* listhead.encode: the encoded header of a list
listheadEncode(head) == puthead(192, 247, U64Of(head.size))

\* encBuffer.encodeStringHeader(size)
encodeStringHeader(b, n) ==
    IF n < 56 THEN [b EXCEPT !.str = Append(@, 128 + n)]
    ELSE [b EXCEPT !.str = @ \o <<183 + intsize(U64Of(n))>> \o putint(U64Of(n))]

\* encBuffer.writeBool
writeBool(b, v) == [b EXCEPT !.str = Append(@, IF v THEN 1 ELSE 128)]

\* encBuffer.writeUint64
writeUint64(b, i) ==
    IF i = U64Zero THEN [b EXCEPT !.str = Append(@, 128)]
    ELSE IF U64Lt(i, U64Of(128)) THEN [b EXCEPT !.str = Append(@, i[8])]
    ELSE [b EXCEPT !.str = @ \o <<128 + Len(putint(i))>> \o putint(i)]

\* encBuffer.writeBytes
writeBytes(b, x) ==
    IF Len(x) = 1 /\ x[1] <= 127 THEN [b EXCEPT !.str = Append(@, x[1])]
    ELSE LET h == encodeStringHeader(b, Len(x)) IN [h EXCEPT !.str = @ \o x]

\* encBuffer.list: push a new list header, its index (0-based) is Len(lheads) - 1
list(b) == [b EXCEPT !.lheads = Append(@, [offset |-> Len(b.str), size |-> b.lhsize])]

\* listEnd that forgets the header bytes emitted before the list was opened
listEnd_NoRunningTotal(b, index) ==
    LET lh == b.lheads[index + 1]
        sz == size(b) - lh.offset
    IN  [b EXCEPT !.lheads[index + 1].size = sz,
                  !.lhsize = IF sz < 56 THEN @ + 1 ELSE @ + 1 + intsize(U64Of(sz))]

\* listEnd that counts one byte for every list header
listEnd_OneByteHeader(b, index) ==
    LET lh == b.lheads[index + 1]
        sz == size(b) - lh.offset - lh.size
    IN  [b EXCEPT !.lheads[index + 1].size = sz, !.lhsize = @ + 1]

\* encBuffer.listEnd(index), index 0-based
listEnd(b, index) ==
    LET lh == b.lheads[index + 1]
        sz == size(b) - lh.offset - lh.size
    IN  [b EXCEPT !.lheads[index + 1].size = sz,
                  !.lhsize = IF sz < 56 THEN @ + 1 ELSE @ + 1 + intsize(U64Of(sz))]

\* encBuffer.writeTo(w): the bytes written to w, in order
RECURSIVE writeToFrom(_, _, _)
writeToFrom(b, i, strpos) ==
    IF i > Len(b.lheads) THEN Drop(b.str, strpos)
    ELSE LET head == b.lheads[i]
             before == IF head.offset - strpos > 0
                       THEN SubSeq(b.str, strpos + 1, head.offset) ELSE <<>>
         IN  before \o listheadEncode(head)
                 \o writeToFrom(b, i + 1, strpos + Len(before))

writeTo(b) == writeToFrom(b, 1, 0)

\* copy(dst[pos:], x) into a destination of n bytes: the bytes copied
CopyInto(n, pos, x) == Take(x, Min(Len(x), n - pos))

\* encBuffer.copyTo(dst) for a destination of n bytes: the bytes stored in dst,
\* front to back, and whether a header did not fit (index out of range)
RECURSIVE copyToFrom(_, _, _, _, _)
copyToFrom(b, n, i, strpos, acc) ==
    IF i > Len(b.lheads)
    THEN [dst |-> acc \o CopyInto(n, Len(acc), Drop(b.str, strpos)), panic |-> FALSE]
    ELSE LET head == b.lheads[i]
             c == CopyInto(n, Len(acc), SubSeq(b.str, strpos + 1, head.offset))
             enc == listheadEncode(head)
         IN  IF Len(acc) + Len(c) + Len(enc) > n
             THEN [dst |-> acc \o c, panic |-> TRUE]
             ELSE copyToFrom(b, n, i + 1, strpos + Len(c), acc \o c \o enc)

copyTo(b, n) == copyToFrom(b, n, 1, 0, <<>>)

\* encBuffer.makeBytes: the encoder output as a fresh slice of size() bytes
makeBytes(b) ==
    LET c == copyTo(b, size(b))
    IN  [out |-> c.dst \o Fill(size(b) - Len(c.dst), 0),
         written |-> Len(c.dst), panic |-> c.panic]

----------------------------------------------------------------------------
(* encbuffer.go: encReader. The reader holds a pointer to the buffer in    *)
(* variable buf; held is FALSE once r.buf is nil. A piece that is not nil  *)
(* is never empty, so the nil piece is the empty sequence.                 *)

\* no reader has been created
NoReader == [open |-> FALSE]

\* &encReader{buf: buf}, with the size that EncodeToReader announces.
\* Ghost fields: out, the bytes delivered by all Read calls; eof, whether the
\* last Read returned io.EOF; n, the number of bytes the last Read returned;
\* puts, the number of times the buffer was put into encBufferPool; deref,
\* whether a field of r.buf was read while r.buf was nil; late, whether the
\* last Read began after the buffer had been released
NewEncReader(b) ==
    [open |-> TRUE, held |-> TRUE, lhpos |-> 0, strpos |-> 0, piece |-> <<>>,
     size |-> size(b), out |-> <<>>, eof |-> FALSE, n |-> 0, puts |-> 0,
     deref |-> FALSE, late |-> FALSE]

\* variant of next that emits every list header before the payload in front of it
nextOfBuf_HeaderFirst(r, b) ==
    IF r.lhpos < Len(b.lheads)
    THEN [r |-> [r EXCEPT !.lhpos = @ + 1], p |-> listheadEncode(b.lheads[r.lhpos + 1])]
    ELSE IF r.strpos < Len(b.str)
    THEN [r |-> [r EXCEPT !.strpos = Len(b.str)], p |-> Drop(b.str, r.strpos)]
    ELSE [r |-> r, p |-> <<>>]

\* encReader.next, the cases that read r.buf: the reader after the call and
\* the piece it returns
nextOfBuf(r, b) ==
    IF r.lhpos < Len(b.lheads)
    THEN IF b.lheads[r.lhpos + 1].offset - r.strpos > 0
         THEN [r |-> [r EXCEPT !.strpos = b.lheads[r.lhpos + 1].offset],
               p |-> SubSeq(b.str, r.strpos + 1, b.lheads[r.lhpos + 1].offset)]
         ELSE [r |-> [r EXCEPT !.lhpos = @ + 1],
               p |-> listheadEncode(b.lheads[r.lhpos + 1])]
    ELSE IF r.strpos < Len(b.str)
    THEN [r |-> [r EXCEPT !.strpos = Len(b.str)], p |-> Drop(b.str, r.strpos)]
    ELSE [r |-> r, p |-> <<>>]

\* variant of next without the case r.buf == nil
next_NoNilCheck(r, b) ==
    IF r.piece # <<>> THEN [r |-> r, p |-> r.piece]
    ELSE nextOfBuf([r EXCEPT !.deref = @ \/ ~r.held], b)

\* encReader.next
next(r, b) ==
    IF ~r.held THEN [r |-> r, p |-> <<>>]
    ELSE IF r.piece # <<>> THEN [r |-> r, p |-> r.piece]
    ELSE nextOfBuf(r, b)

\* variant of Read that puts the buffer into the pool at every io.EOF
ReadEOF_PutAgain(r, got) ==
    [r EXCEPT !.piece = <<>>, !.out = @ \o got, !.n = Len(got), !.eof = TRUE,
              !.held = FALSE, !.puts = @ + 1]

\* encReader.Read at io.EOF: the buffer goes back to the pool the first time
ReadEOF(r, got) ==
    [r EXCEPT !.piece = <<>>, !.out = @ \o got, !.n = Len(got), !.eof = TRUE,
              !.held = FALSE, !.puts = IF r.held THEN @ + 1 ELSE @]

\* encReader.Read(b) with len(b) = len: got holds the bytes copied into b so
\* far, nx is the result of next
RECURSIVE ReadOn(_, _, _, _)
ReadOn(b, len, got, nx) ==
    IF nx.p = <<>> THEN ReadEOF(nx.r, got)
    ELSE IF len - Len(got) < Len(nx.p)
    THEN [nx.r EXCEPT !.piece = Drop(nx.p, len - Len(got)),
                      !.out = @ \o got \o Take(nx.p, len - Len(got)),
                      !.n = len, !.eof = FALSE]
    ELSE ReadOn(b, len, got \o nx.p, next([nx.r EXCEPT !.piece = <<>>], b))

\* encReader.Read(b) with len(b) = len
Read(r, b, len) == ReadOn(b, len, <<>>, next(r, b))

----------------------------------------------------------------------------
(* Go types and values of the type-directed coders.                        *)
(* A type is a record [k, n, sub]: k the kind, n the bit size of an        *)
(* unsigned integer, the length of an array or the number of required      *)
(* fields of a struct, sub the element type or the field types.            *)
(* A value is: an uint64 for "uint", a boolean for "bool", the sequence of *)
(* its bytes for "string", "bytes" and "bytearray", the sequence of its    *)
(* elements for "slice" and "array" (a nil slice and an empty slice are    *)
(* both the empty sequence), the sequence of its field values for          *)
(* "struct", and for "interface" the pair <<"b", bytes>> ([]byte),         *)
(* <<"l", elements>> ([]interface{}) or NilInterface.                      *)

UintT(bits) == [k |-> "uint", n |-> bits, sub |-> <<>>]
BoolT == [k |-> "bool", n |-> 0, sub |-> <<>>]
StringT == [k |-> "string", n |-> 0, sub |-> <<>>]
BytesT == [k |-> "bytes", n |-> 0, sub |-> <<>>]
ByteArrayT(len) == [k |-> "bytearray", n |-> len, sub |-> <<>>]
SliceT(elem) == [k |-> "slice", n |-> 0, sub |-> <<elem>>]
ArrayT(len, elem) == [k |-> "array", n |-> len, sub |-> <<elem>>]
\* a struct whose fields after the first `required` ones are tagged optional
StructT(fields, required) == [k |-> "struct", n |-> required, sub |-> fields]
InterfaceT == [k |-> "interface", n |-> 0, sub |-> <<>>]

NilInterface == <<"n", <<>>>>

\* reflect.Zero(typ)
RECURSIVE ZeroValue(_)
ZeroValue(typ) ==
    CASE typ.k = "uint" -> U64Zero
      [] typ.k = "bool" -> FALSE
      [] typ.k \in {"string", "bytes", "slice", "raw"} -> <<>>
      [] typ.k = "bytearray" -> Fill(typ.n, 0)
      [] typ.k = "array" -> Fill(typ.n, ZeroValue(typ.sub[1]))
      [] typ.k = "struct" -> [i \in 1..Len(typ.sub) |-> ZeroValue(typ.sub[i])]
      [] typ.k = "ptr" -> <<"nil", <<>>>>
      [] typ.k = "bigint" -> [neg |-> FALSE, abs |-> <<>>]
      [] OTHER -> NilInterface

\* reflect.Value.IsZero (of a slice: whether it is nil)
IsZero(typ, v) == v = ZeroValue(typ)

\* firstOptionalField(fields), as the number of fields before it
firstOptionalField(typ) == typ.n

----------------------------------------------------------------------------
(* rlpstruct.go: struct fields and their tags.                             *)
(* A field is a record [Name, Index, Exported, Type, Tag]: Type is a type  *)
(* of the model and Tag the sequence of tokens that                        *)
(* strings.Split(tag.Get("rlp"), ",") and TrimSpace produce, <<"">> for a  *)
(* field without rlp tag.                                                  *)

NilKindString == 128
NilKindList == 192

\* the zero value of Tags
NoTags ==
    [NilKind |-> 0, NilOK |-> FALSE, Optional |-> FALSE, Tail |-> FALSE, Ignored |-> FALSE]

\* a pointer to elem; ts are the tags of the struct field the pointer is the
\* type of (the cache keeps one typeinfo per type and tags), NoTags elsewhere
PtrT(elem, ts) == [k |-> "ptr", n |-> 0, sub |-> <<elem>>, ts |-> ts]

\* big.Int
BigIntT == [k |-> "bigint", n |-> 0, sub |-> <<>>]

\* rlp.RawValue
RawValueT == [k |-> "raw", n |-> 0, sub |-> <<>>]

\* a type with the methods EncodeRLP and DecodeRLP on its pointer
CoderT == [k |-> "coder", n |-> 0, sub |-> <<>>]

\* a type that is not RLP-serializable (a signed integer, a map, a channel)
UnsupportedT == [k |-> "unsupported", n |-> 0, sub |-> <<>>]

\* reflect.Kind of a type, the unsigned integers other than uint8 taken together
KindOf(typ) ==
    CASE typ.k = "uint" -> IF typ.n = 8 THEN "uint8" ELSE "uint"
      [] typ.k \in {"bytes", "slice", "raw"} -> "slice"
      [] typ.k \in {"bytearray", "array"} -> "array"
      [] typ.k \in {"bigint", "coder"} -> "struct"
      [] typ.k = "unsupported" -> "int"
      [] OTHER -> typ.k

\* rlpstruct.isUint
isUint(k) == k \in {"uint", "uint8"}

\* Type.DefaultNilValue, with rlpstruct.isByteArray and isByte, of the
\* rlpstruct.Type that rtypeToStructType builds for typ
DefaultNilValue(typ) ==
    IF \/ isUint(KindOf(typ)) \/ KindOf(typ) = "string" \/ KindOf(typ) = "bool"
       \/ typ.k \in {"bytes", "bytearray", "raw"}
       \/ (typ.k \in {"slice", "array"} /\ KindOf(typ.sub[1]) = "uint8")
    THEN NilKindString
    ELSE NilKindList

\* no error
NoTagError == [Field |-> "", Tag |-> "", Err |-> "nil", Preceding |-> ""]

TagError(field, tag, err) == [Field |-> field, Tag |-> tag, Err |-> err, Preceding |-> ""]

\* lastPublicField
RECURSIVE lastPublicFrom(_, _, _)
lastPublicFrom(fields, i, last_) ==
    IF i > Len(fields) THEN last_
    ELSE lastPublicFrom(fields, i + 1, IF fields[i].Exported THEN fields[i].Index ELSE last_)

lastPublicField(fields) == lastPublicFrom(fields, 1, 0)

\* parseTag, the case of the tokens "nil", "nilString" and "nilList"
parseNilTag(field, tok, ts) ==
    IF field.Type.k # "ptr"
    THEN [ts |-> [ts EXCEPT !.NilOK = TRUE],
          err |-> TagError(field.Name, tok, "field is not a pointer")]
    ELSE [ts |-> [ts EXCEPT !.NilOK = TRUE,
                            !.NilKind = CASE tok = "nil" -> DefaultNilValue(field.Type.sub[1])
                                          [] tok = "nilString" -> NilKindString
                                          [] OTHER -> NilKindList],
          err |-> NoTagError]

\* variant of the case "tail" of parseTag without the test of the field's position
parseTailTag_AnyPosition(field, lastPublic, ts) ==
    IF ts.Optional
    THEN [ts |-> [ts EXCEPT !.Tail = TRUE],
          err |-> TagError(field.Name, "tail", "also has optional tag")]
    ELSE IF KindOf(field.Type) # "slice"
    THEN [ts |-> [ts EXCEPT !.Tail = TRUE],
          err |-> TagError(field.Name, "tail", "field type is not slice")]
    ELSE [ts |-> [ts EXCEPT !.Tail = TRUE], err |-> NoTagError]

\* parseTag, the case of the token "tail"
parseTailTag(field, lastPublic, ts) ==
    IF field.Index # lastPublic
    THEN [ts |-> [ts EXCEPT !.Tail = TRUE],
          err |-> TagError(field.Name, "tail", "must be on last field")]
    ELSE IF ts.Optional
    THEN [ts |-> [ts EXCEPT !.Tail = TRUE],
          err |-> TagError(field.Name, "tail", "also has optional tag")]
    ELSE IF KindOf(field.Type) # "slice"
    THEN [ts |-> [ts EXCEPT !.Tail = TRUE],
          err |-> TagError(field.Name, "tail", "field type is not slice")]
    ELSE [ts |-> [ts EXCEPT !.Tail = TRUE], err |-> NoTagError]

\* parseTag, one token
parseToken(field, lastPublic, tok, ts) ==
    CASE tok = "" -> [ts |-> ts, err |-> NoTagError]
      [] tok = "-" -> [ts |-> [ts EXCEPT !.Ignored = TRUE], err |-> NoTagError]
      [] tok \in {"nil", "nilString", "nilList"} -> parseNilTag(field, tok, ts)
      [] tok = "optional" ->
           [ts |-> [ts EXCEPT !.Optional = TRUE],
            err |-> IF ts.Tail THEN TagError(field.Name, tok, "also has tail tag")
                    ELSE NoTagError]
      [] tok = "tail" -> parseTailTag(field, lastPublic, ts)
      [] OTHER -> [ts |-> ts, err |-> TagError(field.Name, tok, "unknown tag")]

\* parseTag: the loop over the tokens from index i on, r the result so far
RECURSIVE parseTagFrom(_, _, _, _)
parseTagFrom(field, lastPublic, i, r) ==
    IF r.err # NoTagError \/ i > Len(field.Tag) THEN r
    ELSE parseTagFrom(field, lastPublic, i + 1,
                      parseToken(field, lastPublic, field.Tag[i], r.ts))

\* parseTag(field, lastPublic)
parseTag(field, lastPublic) ==
    parseTagFrom(field, lastPublic, 1, [ts |-> NoTags, err |-> NoTagError])

\* ProcessFields, the first loop: the exported fields that are not ignored,
\* and their tags
RECURSIVE collectFields(_, _, _, _)

\* variant of the first loop of ProcessFields that keeps the ignored fields
collectFieldOn_KeepIgnored(allFields, lastPublic, i, acc, pt) ==
    IF pt.err # NoTagError THEN [fields |-> <<>>, tags |-> <<>>, err |-> pt.err]
    ELSE collectFields(allFields, lastPublic, i + 1,
                       [acc EXCEPT !.fields = Append(@, allFields[i]),
                                   !.tags = Append(@, pt.ts)])

collectFieldOn(allFields, lastPublic, i, acc, pt) ==
    IF pt.err # NoTagError THEN [fields |-> <<>>, tags |-> <<>>, err |-> pt.err]
    ELSE IF pt.ts.Ignored THEN collectFields(allFields, lastPublic, i + 1, acc)
    ELSE collectFields(allFields, lastPublic, i + 1,
                       [acc EXCEPT !.fields = Append(@, allFields[i]),
                                   !.tags = Append(@, pt.ts)])

collectFields(allFields, lastPublic, i, acc) ==
    IF i > Len(allFields) THEN acc
    ELSE IF ~allFields[i].Exported THEN collectFields(allFields, lastPublic, i + 1, acc)
    ELSE collectFieldOn(allFields, lastPublic, i, acc, parseTag(allFields[i], lastPublic))

\* variant of the second loop of ProcessFields that accepts every order
checkOptional_Off(c, i, first) == c

\* ProcessFields, the second loop: after an optional (or tail) field every
\* field is optional; first is the name of the first optional field, "" if
\* there was none before field i
RECURSIVE checkOptional(_, _, _)
checkOptional(c, i, first) ==
    IF i > Len(c.fields) THEN c
    ELSE IF c.tags[i].Optional \/ c.tags[i].Tail
    THEN checkOptional(c, i + 1, IF first = "" THEN c.fields[i].Name ELSE first)
    ELSE IF first # ""
    THEN [fields |-> <<>>, tags |-> <<>>,
          err |-> [Field |-> c.fields[i].Name, Tag |-> "",
                   Err |-> "must be optional because preceding field is optional",
                   Preceding |-> first]]
    ELSE checkOptional(c, i + 1, first)

ProcessFieldsOn(c) == IF c.err # NoTagError THEN c ELSE checkOptional(c, 1, "")

\* ProcessFields(allFields): the fields, their tags and the error
ProcessFields(allFields) ==
    ProcessFieldsOn(collectFields(allFields, lastPublicField(allFields), 1,
                                  [fields |-> <<>>, tags |-> <<>>, err |-> NoTagError]))

----------------------------------------------------------------------------
(* typecache.go: the errors that typeinfo.generate stores. An error of     *)
(* this part is a tuple: NoErr, <<"TagError", e>> for the TagError e with  *)
(* the name of the struct type filled in, <<"structFieldError", i, e>>,    *)
(* <<"not RLP-serializable">>.                                             *)

\* a struct type as declared: all its fields with their tags, and whether the
\* pointer to it implements Encoder and Decoder
DeclT(allFields, enc, dec) ==
    [k |-> "decl", n |-> 0, sub |-> <<>>, fields |-> allFields,
     encoder |-> enc, decoder |-> dec]

\* structFields: the error of ProcessFields
structFieldsErr(typ) ==
    IF ProcessFields(typ.fields).err = NoTagError THEN NoErr
    ELSE <<"TagError", ProcessFields(typ.fields).err>>

\* makeStructWriter / makeStructDecoder: the first field whose typeinfo holds
\* an error, errs being the errors of the fields
RECURSIVE fieldErrFrom(_, _)
fieldErrFrom(errs, i) ==
    IF i > Len(errs) THEN NoErr
    ELSE IF errs[i] # NoErr THEN <<"structFieldError", i, errs[i]>>
    ELSE fieldErrFrom(errs, i + 1)

\* the error of structFields, else of the fields that ProcessFields keeps
RECURSIVE writerErr(_)
RECURSIVE decoderErr(_)
declWriterErr(typ, pf) ==
    IF pf.err # NoTagError THEN <<"TagError", pf.err>>
    ELSE fieldErrFrom([i \in 1..Len(pf.fields) |-> writerErr(pf.fields[i].Type)], 1)

declDecoderErr(typ, pf) ==
    IF pf.err # NoTagError THEN <<"TagError", pf.err>>
    ELSE fieldErrFrom([i \in 1..Len(pf.fields) |-> decoderErr(pf.fields[i].Type)], 1)

\* the error of makeWriter(typ, tags)
writerErr(typ) ==
    CASE typ.k = "ptr" ->
           IF typ.sub[1].k = "bigint" THEN NoErr ELSE writerErr(typ.sub[1])
      [] typ.k = "coder" -> NoErr
      [] typ.k = "decl" ->
           IF typ.encoder THEN NoErr ELSE declWriterErr(typ, ProcessFields(typ.fields))
      [] typ.k \in {"slice", "array"} -> writerErr(typ.sub[1])
      [] typ.k = "struct" ->
           fieldErrFrom([i \in 1..Len(typ.sub) |-> writerErr(typ.sub[i])], 1)
      [] typ.k = "unsupported" -> <<"not RLP-serializable">>
      [] OTHER -> NoErr

\* the error of makeDecoder(typ, tags)
decoderErr(typ) ==
    CASE typ.k = "ptr" ->
           IF typ.sub[1].k = "bigint" THEN NoErr ELSE decoderErr(typ.sub[1])
      [] typ.k = "coder" -> NoErr
      [] typ.k = "decl" ->
           IF typ.decoder THEN NoErr ELSE declDecoderErr(typ, ProcessFields(typ.fields))
      [] typ.k \in {"slice", "array"} -> decoderErr(typ.sub[1])
      [] typ.k = "struct" ->
           fieldErrFrom([i \in 1..Len(typ.sub) |-> decoderErr(typ.sub[i])], 1)
      [] typ.k = "unsupported" -> <<"not RLP-serializable">>
      [] OTHER -> NoErr

\* typeinfo.generate: the two errors of the cache entry
generate(typ) == [decoderErr |-> decoderErr(typ), writerErr |-> writerErr(typ)]

----------------------------------------------------------------------------
(* encode.go: the writers that makeWriter selects *)

\* w.str = append(w.str, x...)
appendStr(w, x) == [w EXCEPT !.str = @ \o x]

\* variant of writeString that puts a header in front of every string
writeString_AlwaysHeader(w, x) == appendStr(encodeStringHeader(w, Len(x)), x)

\* writeString
writeString(w, x) ==
    IF Len(x) = 1 /\ x[1] <= 127 THEN appendStr(w, <<x[1]>>)
    ELSE appendStr(encodeStringHeader(w, Len(x)), x)

\* the writers of makeByteArrayWriter
writeByteArray(w, len, x) ==
    IF len = 0 THEN appendStr(w, <<128>>)
    ELSE IF len = 1
    THEN IF x[1] <= 127 THEN appendStr(w, <<x[1]>>) ELSE appendStr(w, <<129, x[1]>>)
    ELSE appendStr(encodeStringHeader(w, Len(x)), x)

\* variant of the scan in makeStructWriter that never drops the first optional field
RECURSIVE lastField_KeepFirstOptional(_, _, _)
lastField_KeepFirstOptional(typ, v, i) ==
    IF i > firstOptionalField(typ) + 1 /\ IsZero(typ.sub[i], v[i])
    THEN lastField_KeepFirstOptional(typ, v, i - 1)
    ELSE i

\* makeStructWriter: the number of fields written, the trailing zero-valued
\* optional fields left out
RECURSIVE lastField(_, _, _)
lastField(typ, v, i) ==
    IF i > firstOptionalField(typ) /\ IsZero(typ.sub[i], v[i])
    THEN lastField(typ, v, i - 1)
    ELSE i

\* the writer for typ applied to the value v and the buffer w
RECURSIVE write(_, _, _)

\* a writer returns the error err
fail(w, err) == [w EXCEPT !.werr = err]

\* the loop of makeSliceWriter: the elements from index i on, left at the
\* first element whose writer returns an error
RECURSIVE writeElems(_, _, _, _)
writeElems(etyp, v, i, w) ==
    IF i > Len(v) \/ w.werr # NoErr THEN w
    ELSE writeElems(etyp, v, i + 1, write(etyp, v[i], w))

\* the loop of makeStructWriter: the fields i..last, left at the first field
\* whose writer returns an error
RECURSIVE writeFields(_, _, _, _, _)
writeFields(typ, v, i, last_, w) ==
    IF i > last_ \/ w.werr # NoErr THEN w
    ELSE writeFields(typ, v, i + 1, last_, write(typ.sub[i], v[i], w))

\* w.listEnd(lh) at the end of a list writer, not reached after an error
listEndOf(w, index) == IF w.werr # NoErr THEN w ELSE listEnd(w, index)

\* makeSliceWriter (without the tail tag), for slices and arrays
writeSlice(etyp, v, w) ==
    IF Len(v) = 0 THEN appendStr(w, <<192>>)
    ELSE listEndOf(writeElems(etyp, v, 1, list(w)), Len(w.lheads))

\* makeStructWriter
writeStruct(typ, v, w) ==
    listEndOf(writeFields(typ, v, 1, lastField(typ, v, Len(typ.sub)), list(w)),
              Len(w.lheads))

\* writeInterface: the writer of the dynamic type
writeInterface(v, w) ==
    IF v = NilInterface THEN appendStr(w, <<192>>)
    ELSE IF v[1] = "b" THEN write(BytesT, v[2], w)
    ELSE write(SliceT(InterfaceT), v[2], w)

\* a nil pointer, and the pointer to the value v
NilPtr == <<"nil", <<>>>>

PtrTo(v) == <<"ptr", v>>

\* a big.Int: its sign and the bytes of its absolute value, most significant
\* first, without leading zero bytes
BigInt(neg, abs) == [neg |-> neg, abs |-> abs]

\* encBuffer.writeBigInt(i): at most 64 bits as uint64, else as a string
writeBigInt(w, i) ==
    IF Len(i.abs) <= 8 THEN writeUint64(w, Fill(8 - Len(i.abs), 0) \o i.abs)
    ELSE appendStr(encodeStringHeader(w, Len(i.abs)), i.abs)

\* writeBigIntNoPtr
writeBigIntNoPtr(v, w) ==
    IF v.neg THEN fail(w, <<"ErrNegativeBigInt">>) ELSE writeBigInt(w, v)

\* writeBigIntPtr
writeBigIntPtr(v, w) ==
    IF v = NilPtr THEN appendStr(w, <<128>>) ELSE writeBigIntNoPtr(v[2], w)

\* typeNilKind(typ, tags): the kind of the empty value that stands for a nil
\* pointer to typ
typeNilKind(typ, ts) ==
    IF (IF ts.NilOK THEN ts.NilKind ELSE DefaultNilValue(typ)) = NilKindString
    THEN String
    ELSE List

\* the writer of makePtrWriter
writePtr(typ, v, w) ==
    IF v # NilPtr THEN write(typ.sub[1], v[2], w)
    ELSE IF typeNilKind(typ.sub[1], typ.ts) = String THEN appendStr(w, <<128>>)
    ELSE appendStr(w, <<192>>)

\* the writer of makeEncoderWriter for a type whose EncodeRLP writes v.out to
\* w and returns v.err
writeEncoder(v, w) == fail(appendStr(w, v.out), v.err)

\* makeWriter
write(typ, v, w) ==
    CASE typ.k = "raw" -> appendStr(w, v)
      [] typ.k = "ptr" /\ typ.sub[1].k = "bigint" -> writeBigIntPtr(v, w)
      [] typ.k = "bigint" -> writeBigIntNoPtr(v, w)
      [] typ.k = "ptr" -> writePtr(typ, v, w)
      [] typ.k = "coder" -> writeEncoder(v, w)
      [] typ.k = "uint" -> writeUint64(w, v)
      [] typ.k = "bool" -> writeBool(w, v)
      [] typ.k = "string" -> writeString(w, v)
      [] typ.k = "bytes" -> writeBytes(w, v)
      [] typ.k = "bytearray" -> writeByteArray(w, typ.n, v)
      [] typ.k \in {"slice", "array"} -> writeSlice(typ.sub[1], v, w)
      [] typ.k = "struct" -> writeStruct(typ, v, w)
      [] OTHER -> writeInterface(v, w)

\* encBuffer.encode(val): the error of cachedWriter, else the writer
encode(w, typ, v) ==
    IF writerErr(typ) # NoErr THEN fail(w, writerErr(typ)) ELSE write(typ, v, w)

\* EncodeToBytes(val): the bytes returned and the error
EncodeToBytesOn(w) ==
    IF w.werr # NoErr THEN [b |-> <<>>, err |-> w.werr]
    ELSE [b |-> makeBytes(w).out, err |-> NoErr]

\* EncodeToBytes(val): the bytes returned
EncodeToBytes(typ, v) == EncodeToBytesOn(encode(EmptyBuf, typ, v)).b

----------------------------------------------------------------------------
(* decode.go: the decoders that makeDecoder selects.                       *)
(* A decoder returns the stream, the decoded value and the error.          *)

\* wrapStreamError: stream errors become decodeErrors with these messages
wrapStreamError(e) ==
    CASE e = "ErrCanonInt" -> "non-canonical integer (leading zero bytes)"
      [] e = "ErrCanonSize" -> "non-canonical size information"
      [] e = "ErrExpectedList" -> "expected input list"
      [] e = "ErrExpectedString" -> "expected input string or byte"
      [] e = "errUintOverflow" -> "input string too long"
      [] e = "errNotAtEOL" -> "input list has too many elements"
      [] OTHER -> e

decFail(st, e) == [s |-> st, v |-> <<>>, err |-> e]

\* decodeUint and decodeBool, after the stream operation returned r
decodeNumber(r) ==
    IF r.err # "nil" THEN decFail(r.s, wrapStreamError(r.err))
    ELSE [s |-> r.s, v |-> r.v, err |-> "nil"]

\* decodeString and decodeByteSlice, after Stream.Bytes returned r
decodeBytes(r) ==
    IF r.err # "nil" THEN decFail(r.s, wrapStreamError(r.err))
    ELSE [s |-> r.s, v |-> r.b, err |-> "nil"]

decodeUint(st, typ) == decodeNumber(uint(st, typ.n))
decodeBool(st) == decodeNumber(Bool(st))
decodeString(st) == decodeBytes(Bytes(st))
decodeByteSlice(st) == decodeBytes(Bytes(st))

\* decodeByteArray, String case after readFull returned rf
decodeByteArrayRead(k, rf) ==
    IF rf.err # "nil" THEN decFail(rf.s, rf.err)
    ELSE IF k.size = U64Of(1) /\ rf.b[1] < 128
    THEN decFail(rf.s, wrapStreamError("ErrCanonSize"))
    ELSE [s |-> rf.s, v |-> rf.b, err |-> "nil"]

decodeByteArrayOn(typ, k) ==
    IF k.err # "nil" THEN decFail(k.s, k.err)
    ELSE IF k.kind = Byte
    THEN IF typ.n = 0 THEN decFail(k.s, "input string too long")
         ELSE IF typ.n > 1 THEN decFail(k.s, "input string too short")
         ELSE [s |-> [k.s EXCEPT !.kind = -1], v |-> <<k.s.byteval>>, err |-> "nil"]
    ELSE IF k.kind = String
    THEN IF U64Lt(U64Of(typ.n), k.size) THEN decFail(k.s, "input string too long")
         ELSE IF U64Gt(U64Of(typ.n), k.size) THEN decFail(k.s, "input string too short")
         ELSE decodeByteArrayRead(k, readFull(k.s, U64Of(typ.n)))
    ELSE decFail(k.s, wrapStreamError("ErrExpectedString"))

\* decodeByteArray
decodeByteArray(st, typ) == decodeByteArrayOn(typ, Kind(st))

\* the decoder for typ applied to the stream st
RECURSIVE decode(_, _)

\* return s.ListEnd(), the decoded value being v
listEnded(le, v) == [s |-> le.s, v |-> v, err |-> le.err]

\* return wrapStreamError(s.ListEnd(), typ), the decoded value being v
listEndedWrapped(le, v) == [s |-> le.s, v |-> v, err |-> wrapStreamError(le.err)]

\* decodeSliceElems: decode elements after the ones in acc until EOL
RECURSIVE decodeSliceElems(_, _, _)
decodeSliceElemsOn(etyp, acc, r) ==
    IF r.err = "EOL" THEN [s |-> r.s, v |-> acc, err |-> "nil"]
    ELSE IF r.err # "nil" THEN decFail(r.s, r.err)
    ELSE decodeSliceElems(etyp, r.s, Append(acc, r.v))

decodeSliceElems(etyp, st, acc) == decodeSliceElemsOn(etyp, acc, decode(etyp, st))

decodeListSliceEnd(r) ==
    IF r.err # "nil" THEN r ELSE listEnded(ListEnd(r.s), r.v)

decodeListSliceOn(etyp, l) ==
    IF l.err # "nil" THEN decFail(l.s, wrapStreamError(l.err))
    ELSE IF l.size = U64Zero THEN listEnded(ListEnd(l.s), <<>>)
    ELSE decodeListSliceEnd(decodeSliceElems(etyp, l.s, <<>>))

\* decodeListSlice
decodeListSlice(st, etyp) == decodeListSliceOn(etyp, List_(st))

\* decodeListArray: the loop over the elements from index i on, and the end
RECURSIVE decodeArrayElems(_, _, _, _)
decodeArrayElemOn(typ, i, acc, r) ==
    IF r.err = "EOL" THEN decFail(r.s, "input list has too few elements")
    ELSE IF r.err # "nil" THEN decFail(r.s, r.err)
    ELSE decodeArrayElems(typ, r.s, i + 1, Append(acc, r.v))

decodeArrayElems(typ, st, i, acc) ==
    IF i > typ.n THEN listEndedWrapped(ListEnd(st), acc)
    ELSE decodeArrayElemOn(typ, i, acc, decode(typ.sub[1], st))

decodeListArrayOn(typ, l) ==
    IF l.err # "nil" THEN decFail(l.s, wrapStreamError(l.err))
    ELSE decodeArrayElems(typ, l.s, 1, <<>>)

\* decodeListArray
decodeListArray(st, typ) == decodeListArrayOn(typ, List_(st))

\* zeroFields: the zero values of the fields from index i on
\* what a target of the type holds before the decoder runs, when it is not
\* fresh: some value that is not the zero value
RECURSIVE PriorValue(_)
PriorValue(typ) ==
    CASE typ.k = "uint" -> U64Of(1)
      [] typ.k = "bool" -> TRUE
      [] typ.k \in {"string", "bytes", "raw"} -> <<9>>
      [] typ.k = "bytearray" -> Fill(typ.n, 9)
      [] typ.k = "slice" -> <<PriorValue(typ.sub[1])>>
      [] typ.k = "array" -> Fill(typ.n, PriorValue(typ.sub[1]))
      [] typ.k = "struct" -> [i \in 1..Len(typ.sub) |-> PriorValue(typ.sub[i])]
      [] typ.k = "ptr" -> PtrTo(PriorValue(typ.sub[1]))
      [] typ.k = "bigint" -> BigInt(FALSE, <<9>>)
      [] OTHER -> <<"b", <<9>>>>

\* variant of zeroFields that leaves the fields as they were
zeroFields_KeepPrior(typ, i) ==
    [j \in 1..(Len(typ.sub) - i + 1) |-> PriorValue(typ.sub[i + j - 1])]

\* zeroFields(val, fields[i:]): the values of the fields from index i on
zeroFields(typ, i) == [j \in 1..(Len(typ.sub) - i + 1) |-> ZeroValue(typ.sub[i + j - 1])]

\* makeStructDecoder: the loop over the fields from index i on, and the end
RECURSIVE decodeFields(_, _, _, _)

\* variant of decodeFieldOn that returns at the end of the list without ListEnd
decodeFieldOn_NoListEnd(typ, i, acc, r) ==
    IF r.err = "EOL"
    THEN IF i > firstOptionalField(typ)
         THEN [s |-> r.s, v |-> acc \o zeroFields(typ, i), err |-> "nil"]
         ELSE decFail(r.s, "too few elements")
    ELSE IF r.err # "nil" THEN decFail(r.s, r.err)
    ELSE decodeFields(typ, r.s, i + 1, Append(acc, r.v))

decodeFieldOn(typ, i, acc, r) ==
    IF r.err = "EOL"
    THEN IF i > firstOptionalField(typ)
         THEN listEndedWrapped(ListEnd(r.s), acc \o zeroFields(typ, i))
         ELSE decFail(r.s, "too few elements")
    ELSE IF r.err # "nil" THEN decFail(r.s, r.err)
    ELSE decodeFields(typ, r.s, i + 1, Append(acc, r.v))

decodeFields(typ, st, i, acc) ==
    IF i > Len(typ.sub)
    THEN listEndedWrapped(ListEnd(st), acc)
    ELSE decodeFieldOn(typ, i, acc, decode(typ.sub[i], st))

decodeStructOn(typ, l) ==
    IF l.err # "nil" THEN decFail(l.s, wrapStreamError(l.err))
    ELSE decodeFields(typ, l.s, 1, <<>>)

\* the decoder of makeStructDecoder
decodeStruct(st, typ) == decodeStructOn(typ, List_(st))

\* decodeInterface: a list becomes []interface{}, anything else []byte
decodeInterfaceList(r) ==
    IF r.err # "nil" THEN r ELSE [s |-> r.s, v |-> <<"l", r.v>>, err |-> "nil"]

decodeInterfaceBytes(r) ==
    IF r.err # "nil" THEN decFail(r.s, r.err)
    ELSE [s |-> r.s, v |-> <<"b", r.b>>, err |-> "nil"]

decodeInterfaceOn(k) ==
    IF k.err # "nil" THEN decFail(k.s, k.err)
    ELSE IF k.kind = List THEN decodeInterfaceList(decodeListSlice(k.s, InterfaceT))
    ELSE decodeInterfaceBytes(Bytes(k.s))

decodeInterface(st) == decodeInterfaceOn(Kind(st))

\* Stream.decodeBigInt, after readFull returned rf
decodeBigIntRead(k, rf) ==
    IF rf.err # "nil" THEN [s |-> rf.s, b |-> <<>>, err |-> rf.err]
    ELSE IF k.size = U64Of(1) /\ rf.b[1] < 128
    THEN [s |-> rf.s, b |-> <<>>, err |-> "ErrCanonSize"]
    ELSE IF rf.b[1] = 0 THEN [s |-> rf.s, b |-> <<>>, err |-> "ErrCanonInt"]
    ELSE [s |-> rf.s, b |-> rf.b, err |-> "nil"]

\* Stream.decodeBigInt: the bytes handed to dst.SetBytes
streamDecodeBigIntOn(k) ==
    IF k.err # "nil" THEN [s |-> k.s, b |-> <<>>, err |-> k.err]
    ELSE IF k.kind = List THEN [s |-> k.s, b |-> <<>>, err |-> "ErrExpectedString"]
    ELSE IF k.kind = Byte
    THEN IF k.s.byteval = 0
         THEN [s |-> [k.s EXCEPT !.kind = -1], b |-> <<>>, err |-> "ErrCanonInt"]
         ELSE [s |-> [k.s EXCEPT !.kind = -1], b |-> <<k.s.byteval>>, err |-> "nil"]
    ELSE IF k.size = U64Zero
    THEN [s |-> [k.s EXCEPT !.kind = -1], b |-> <<>>, err |-> "nil"]
    ELSE decodeBigIntRead(k, readFull(k.s, k.size))

streamDecodeBigInt(st) == streamDecodeBigIntOn(Kind(st))

\* Stream.ReadUint256: as decodeBigInt, for strings of at most 32 bytes
ReadUint256On(k) ==
    IF k.err = "nil" /\ k.kind = String /\ U64Gt(k.size, U64Of(32))
    THEN [s |-> k.s, b |-> <<>>, err |-> "errUint256Large"]
    ELSE streamDecodeBigIntOn(k)

ReadUint256(st) == ReadUint256On(Kind(st))

\* decodeBigIntNoPtr, after Stream.decodeBigInt returned r
decodeBigIntOn(r) ==
    IF r.err # "nil" THEN decFail(r.s, wrapStreamError(r.err))
    ELSE [s |-> r.s, v |-> BigInt(FALSE, r.b), err |-> "nil"]

decodeBigIntNoPtr(st) == decodeBigIntOn(streamDecodeBigInt(st))

\* the pointer decoders after the decoder of the element returned r: the
\* pointer is set when there was no error, and left nil otherwise
ptrDecoded(r) ==
    IF r.err # "nil" THEN [s |-> r.s, v |-> NilPtr, err |-> r.err]
    ELSE [s |-> r.s, v |-> PtrTo(r.v), err |-> "nil"]

\* decodeBigInt for a pointer that is nil: a new big.Int is set before decoding
decodeBigIntSet(r) ==
    IF r.err # "nil" THEN [s |-> r.s, v |-> PtrTo(BigInt(FALSE, <<>>)), err |-> r.err]
    ELSE [s |-> r.s, v |-> PtrTo(r.v), err |-> "nil"]

decodeBigInt(st) == decodeBigIntSet(decodeBigIntNoPtr(st))

\* the decoder of makeSimplePtrDecoder
decodeSimplePtr(st, etyp) == ptrDecoded(decode(etyp, st))

\* the decoder of makeNilPtrDecoder, after Stream.Kind returned k
decodeNilPtrOn(etyp, ts, k) ==
    IF k.err # "nil" THEN [s |-> k.s, v |-> NilPtr, err |-> wrapStreamError(k.err)]
    ELSE IF k.kind # Byte /\ k.size = U64Zero
    THEN IF k.kind # typeNilKind(etyp, ts)
         THEN [s |-> k.s, v |-> NilPtr, err |-> "wrong kind of empty value"]
         ELSE [s |-> [k.s EXCEPT !.kind = -1], v |-> NilPtr, err |-> "nil"]
    ELSE ptrDecoded(decode(etyp, k.s))

decodeNilPtr(st, etyp, ts) == decodeNilPtrOn(etyp, ts, Kind(st))

\* makePtrDecoder
decodePtr(st, typ) ==
    IF ~typ.ts.NilOK THEN decodeSimplePtr(st, typ.sub[1])
    ELSE decodeNilPtr(st, typ.sub[1], typ.ts)

\* decodeRawValue, after Stream.Raw returned r
decodeRawValueOn(r) ==
    IF r.err # "nil" THEN decFail(r.s, r.err)
    ELSE [s |-> r.s, v |-> r.b, err |-> "nil"]

decodeRawValue(st) == decodeRawValueOn(Raw(st))

\* makeDecoder
decode(typ, st) ==
    CASE typ.k = "raw" -> decodeRawValue(st)
      [] typ.k = "ptr" /\ typ.sub[1].k = "bigint" -> decodeBigInt(st)
      [] typ.k = "bigint" -> decodeBigIntNoPtr(st)
      [] typ.k = "ptr" -> decodePtr(st, typ)
      [] typ.k = "uint" -> decodeUint(st, typ)
      [] typ.k = "bool" -> decodeBool(st)
      [] typ.k = "string" -> decodeString(st)
      [] typ.k = "bytes" -> decodeByteSlice(st)
      [] typ.k = "bytearray" -> decodeByteArray(st, typ)
      [] typ.k = "slice" -> decodeListSlice(st, typ.sub[1])
      [] typ.k = "array" -> decodeListArray(st, typ)
      [] typ.k = "struct" -> decodeStruct(st, typ)
      [] OTHER -> decodeInterface(st)

\* Stream.Decode(val) for a non-nil pointer val to a value of type typ
Decode(st, typ) == decode(typ, st)

\* variant of DecodeBytes that ignores the bytes after the first value
DecodeBytes_AnyRest(r) == [v |-> r.v, err |-> r.err, rest |-> ReaderLen(r.s.r)]

\* DecodeBytes, after stream.Decode returned r
DecodeBytesOn(r) ==
    IF r.err # "nil" THEN [v |-> r.v, err |-> r.err, rest |-> ReaderLen(r.s.r)]
    ELSE IF ReaderLen(r.s.r) > 0
    THEN [v |-> r.v, err |-> "ErrMoreThanOneValue", rest |-> ReaderLen(r.s.r)]
    ELSE [v |-> r.v, err |-> "nil", rest |-> 0]

\* DecodeBytes(b, val): the stream reads b through a sliceReader, limit len(b)
DecodeBytes(typ, b) ==
    DecodeBytesOn(Decode(Reset(ZeroStream, NewReader(b, FALSE), Len(b)), typ))

----------------------------------------------------------------------------
(* Variable groups; a specification of one component leaves the others idle *)

streamVars == <<s, opened, last>>
encVars == <<buf, lstack, ref, er>>
codecVars == <<cin, cout>>

StreamIdle == s = ZeroStream /\ opened = <<>> /\ last = [op |-> "none"]
EncIdle ==
    buf = EmptyBuf /\ lstack = <<>> /\ ref = [lv |-> <<>>, n |-> 0] /\ er = NoReader
CodecIdle == cin = [op |-> "none"] /\ cout = [op |-> "none"]

----------------------------------------------------------------------------
(* The encoding buffer driven through the EncoderBuffer API: value writes  *)
(* and properly nested List() / ListEnd() calls                            *)

\* bound: number of write / list operations applied to one buffer
MaxEncOps == 4

\* byte strings written: empty, single bytes below and above 0x80, and strings
\* that take a list payload across the 56 and 256 byte boundaries
EncByteStrings == {<<>>, <<5>>, <<200>>, Fill(55, 7), Fill(255, 7)}

\* integers written
EncUints == {U64Of(0), U64Of(1024)}

\* reference encoding of a byte string, with the header rules of the wire grammar
RefString(x) ==
    IF Len(x) = 1 /\ x[1] < 128 THEN x ELSE puthead(128, 183, U64Of(Len(x))) \o x

\* reference encoding of a list whose elements are already encoded as payload
RefList(payload) == puthead(192, 247, U64Of(Len(payload))) \o payload

\* ghost: append encoded bytes to the innermost open level of the reference
RefAppend(r, bytes) == [r EXCEPT !.lv[Len(r.lv)] = @ \o bytes, !.n = @ + 1]

EncInit ==
    /\ StreamIdle /\ CodecIdle
    /\ buf = EmptyBuf /\ lstack = <<>> /\ ref = [lv |-> << <<>> >>, n |-> 0]
    /\ er = NoReader

\* EncoderBuffer.WriteBytes(b)
EncWriteBytes ==
    /\ ref.n < MaxEncOps
    /\ \E x \in EncByteStrings :
          /\ buf' = writeBytes(buf, x)
          /\ ref' = RefAppend(ref, RefString(x))
    /\ UNCHANGED <<lstack, er, streamVars, codecVars>>

\* EncoderBuffer.WriteUint64(i)
EncWriteUint64 ==
    /\ ref.n < MaxEncOps
    /\ \E i \in EncUints :
          /\ buf' = writeUint64(buf, i)
          /\ ref' = RefAppend(ref, AppendUint64(i))
    /\ UNCHANGED <<lstack, er, streamVars, codecVars>>

\* EncoderBuffer.WriteBool(b)
EncWriteBool ==
    /\ ref.n < MaxEncOps
    /\ \E v \in BOOLEAN :
          /\ buf' = writeBool(buf, v)
          /\ ref' = RefAppend(ref, IF v THEN <<1>> ELSE <<128>>)
    /\ UNCHANGED <<lstack, er, streamVars, codecVars>>

\* EncoderBuffer.List(): open a list, remember the index it returns
EncList ==
    /\ ref.n < MaxEncOps
    /\ buf' = list(buf)
    /\ lstack' = Append(lstack, Len(buf.lheads))
    /\ ref' = [ref EXCEPT !.lv = Append(@, <<>>), !.n = @ + 1]
    /\ UNCHANGED <<er, streamVars, codecVars>>

\* EncoderBuffer.ListEnd(index) for the innermost open list
EncListEnd ==
    /\ lstack # <<>>
    /\ buf' = listEnd(buf, lstack[Len(lstack)])
    /\ lstack' = Take(lstack, Len(lstack) - 1)
    /\ LET lv == ref.lv
           k == Len(lv)
       IN  ref' = [ref EXCEPT !.lv = [Take(lv, k - 1) EXCEPT ![k - 1] = @ \o RefList(lv[k])]]
    /\ UNCHANGED <<er, streamVars, codecVars>>

EncNext == EncWriteBytes \/ EncWriteUint64 \/ EncWriteBool \/ EncList \/ EncListEnd

SpecEnc == EncInit /\ [][EncNext]_vars

----------------------------------------------------------------------------
(* Claims about the encoding buffer *)

\* every value of b is a well-formed encoding by the rules of raw.go, lists included
RECURSIVE WellFormed(_)
WellFormedSplit(r) ==
    /\ r.err = "nil"
    /\ r.k = List => WellFormed(r.content)
    /\ WellFormed(r.rest)

WellFormed(b) == b = <<>> \/ WellFormedSplit(Split(b))

\* sum of the encoded header sizes of the first i header records
RECURSIVE HeadBytes(_, _)
HeadBytes(b, i) ==
    IF i = 0 THEN 0 ELSE HeadBytes(b, i - 1) + headsize(U64Of(b.lheads[i].size))

\* C9: once every opened list is closed (innermost first), the flushed output is
\* well-formed RLP: it equals the reference encoding in which every list header
\* declares the number of output bytes of the list's elements (nested headers
\* included), and the header records lie in open order at non-decreasing offsets.
C9_FlushedOutputWellFormed ==
    /\ \A i \in 1..Len(buf.lheads) : \A j \in 1..Len(buf.lheads) :
          i < j => buf.lheads[i].offset <= buf.lheads[j].offset
    /\ lstack = <<>> /\ ref.lv # <<>> =>
          /\ writeTo(buf) = ref.lv[1]
          /\ WellFormed(writeTo(buf))

\* a list of at least 56 payload bytes that encloses a nested list of at least 56 bytes
C9_Witness ==
    /\ lstack = <<>>
    /\ Len(buf.lheads) >= 2
    /\ buf.lheads[1].offset = 0
    /\ buf.lheads[1].size + headsize(U64Of(buf.lheads[1].size)) = size(buf)
    /\ buf.lheads[2].size >= 56
    /\ buf.lheads[2].offset > 0

\* C10: once every opened list is closed, size() is the number of bytes that
\* writeTo and makeBytes produce: the payload length plus the encoded size of
\* every list header.
C10_SizeIsOutputLength ==
    lstack = <<>> =>
        /\ size(buf) = Len(writeTo(buf))
        /\ ~makeBytes(buf).panic
        /\ makeBytes(buf).written = size(buf)
        /\ size(buf) = Len(buf.str) + HeadBytes(buf, Len(buf.lheads))

\* size() of a buffer holding a short and a long list header
C10_Witness ==
    /\ lstack = <<>>
    /\ \E i \in 1..Len(buf.lheads) : buf.lheads[i].size < 56
    /\ \E i \in 1..Len(buf.lheads) : buf.lheads[i].size >= 256

----------------------------------------------------------------------------
(* The Stream driven through its API: any sequence of Kind, Bytes, Uint,   *)
(* Bool, Raw, List and ListEnd calls on a stream reset over an in-memory   *)
(* input, with or without an input limit                                   *)

\* bound: length of the inputs that are enumerated exhaustively
MaxStreamLen == 3

\* bound: largest explicit input limit passed to Reset
MaxLimit == 3

\* header and payload bytes of the enumerated inputs: a single byte, strings of
\* one and two bytes, lists of one and two payload bytes, a long-form string
StreamAlphabet == {1, 129, 130, 193, 194, 184}

RECURSIVE SeqsUpTo(_, _)
SeqsUpTo(A, n) ==
    IF n = 0 THEN {<<>>}
    ELSE LET shorter == SeqsUpTo(A, n - 1)
         IN  shorter \cup {Append(x, a) : x \in {y \in shorter : Len(y) = n - 1}, a \in A}

\* inputs that need the long form: a string and a list of 56 payload bytes
StreamLongInputs ==
    {<<184, 56>> \o Fill(56, 1), <<248, 56>> \o Fill(56, 1), <<193, 184, 56>> \o Fill(56, 1)}

StreamInputs == SeqsUpTo(StreamAlphabet, MaxStreamLen) \cup StreamLongInputs

\* ghost: the part of a Stream state the claims refer to as "before the call"
Pre(st) ==
    [pos |-> st.r.pos, remaining |-> st.remaining, limited |-> st.limited,
     depth |-> Len(st.stack), cached |-> st.kind >= 0]

\* errors after which the list accounting no longer reflects the bytes read:
\* willRead has counted the bytes, the reader did not deliver them
ReadFailed(e) == e \in {"ErrUnexpectedEOF", "ErrValueTooLarge"}

MarkBroken(o, e) ==
    IF ReadFailed(e) THEN [i \in 1..Len(o) |-> [o[i] EXCEPT !.broken = TRUE]] ELSE o

StreamInit ==
    /\ EncIdle /\ CodecIdle
    /\ \E data \in StreamInputs : \E known \in BOOLEAN : \E lim \in 0..MaxLimit :
          /\ lim > 0 => ~known
          /\ s = NewStream(NewReader(data, known), lim)
          /\ last = [op |-> "Reset", err |-> "nil", pre |-> Pre(ZeroStream),
                     L |-> IF lim > 0 THEN lim ELSE IF known THEN Len(data) ELSE -1]
    /\ opened = <<>>

\* the ghost record of an operation that neither enters nor leaves a list
Did(op, e) == [op |-> op, err |-> e, pre |-> Pre(s), L |-> last.L]

\* the state after an operation that returned r and left the list nesting alone
StreamStep(op, r) ==
    /\ s' = r.s
    /\ last' = Did(op, r.err)
    /\ opened' = MarkBroken(opened, r.err)
    /\ UNCHANGED <<encVars, codecVars>>

\* Stream.Kind()
StreamKind == StreamStep("Kind", Kind(s))

\* Stream.Bytes()
StreamBytes == StreamStep("Bytes", Bytes(s))

\* Stream.Uint8() and Stream.Uint64()
StreamUint == \E maxbits \in {8, 64} : StreamStep("Uint", uint(s, maxbits))

\* Stream.Raw()
StreamRaw == StreamStep("Raw", Raw(s))

\* the state after Stream.List() returned r
StreamListStep(r) ==
    /\ s' = r.s
    /\ last' = Did("List", r.err)
    /\ opened' =
         IF r.err = "nil"
         THEN Append(opened, [size |-> r.size, start |-> r.s.r.pos,
                              broken |-> FALSE, inner |-> 0])
         ELSE MarkBroken(opened, r.err)
    /\ UNCHANGED <<encVars, codecVars>>

\* Stream.List()
StreamList == StreamListStep(List_(s))

\* the state after Stream.ListEnd() returned r with n lists open
StreamListEndStep(r, n) ==
    /\ s' = r.s
    /\ IF r.err = "nil"
       THEN /\ last' = [op |-> "ListEnd", err |-> r.err, pre |-> Pre(s),
                        L |-> last.L, closed |-> opened[n]]
            /\ opened' = [i \in 1..(n - 1) |->
                            IF i = n - 1 THEN [opened[i] EXCEPT !.inner = @ + 1]
                            ELSE opened[i]]
       ELSE /\ last' = Did("ListEnd", r.err)
            /\ opened' = opened
    /\ UNCHANGED <<encVars, codecVars>>

\* Stream.ListEnd()
StreamListEnd == StreamListEndStep(ListEnd(s), Len(opened))

StreamNext ==
    StreamKind \/ StreamBytes \/ StreamUint \/ StreamRaw \/ StreamList \/ StreamListEnd

SpecStream == StreamInit /\ [][StreamNext]_vars

----------------------------------------------------------------------------
(* Claims about the Stream *)

\* a successful ListEnd has just closed a list
ListClosed == last.op = "ListEnd" /\ last.err = "nil"

KindReadHeaderInList ==
    /\ last.op = "Kind"
    /\ ~last.pre.cached
    /\ last.pre.depth > 0
    /\ s.kind \in {String, List}
    /\ s.kinderr \in {"nil", "ErrElemTooLarge", "ErrValueTooLarge"}

\* C7 as stated: inside a list, an element whose declared size exceeds the bytes
\* left in the enclosing list after the element's header is rejected with
\* ErrElemTooLarge, and every nesting-stack entry is at most the size with
\* which it was pushed (the count never wraps below zero).
C7_ElemTooLargeRejected ==
    /\ KindReadHeaderInList /\ U64Gt(s.size, s.stack[Len(s.stack)]) =>
          last.err = "ErrElemTooLarge"
    /\ \A i \in 1..Len(s.stack) : ~U64Gt(s.stack[i], opened[i].size)

\* the header at offset pos of the source of st, by the rules of raw.go
HeaderAt(st, pos) ==
    IF pos >= Len(st.r.data) THEN rawKindFail("ErrUnexpectedEOF")
    ELSE rawHeader(Drop(st.r.data, pos))

\* header plus declared content of hd exceeds the limit left over
ExceedsLimit(hd, remaining) ==
    /\ hd.err = "nil"
    /\ U64Gt(U64Of(hd.tagsize + U64ToNat(hd.contentsize)), remaining)

\* Kind has just been called, with nothing cached, on a limited stream in front
\* of a value whose header plus declared content exceeds the remaining limit
KindOnOversizedValue ==
    /\ last.op = "Kind"
    /\ ~last.pre.cached
    /\ last.pre.limited
    /\ ExceedsLimit(HeaderAt(s, last.pre.pos), last.pre.remaining)

\* the bytes read from the source never exceed the input limit
WithinInputLimit == last.L >= 0 => s.r.pos <= last.L

\* the last call read no byte of the payload of the value in front of it
NoPayloadRead == s.r.pos - last.pre.pos <= HeaderAt(s, last.pre.pos).tagsize

\* C8 as stated: the bytes read never exceed the input limit, and Kind on a
\* value whose header plus declared content exceeds the remaining limit returns
\* ErrValueTooLarge before any payload byte is read.
C8_InputLimit_AsStated ==
    /\ WithinInputLimit
    /\ KindOnOversizedValue => last.err = "ErrValueTooLarge" /\ NoPayloadRead

\* C8: the bytes read never exceed the input limit; Kind on a value whose header
\* plus declared content exceeds the remaining limit reads no payload byte and
\* fails: outside of any list with ErrValueTooLarge when some of the limit is
\* left and with io.EOF when none is left, inside a list with ErrValueTooLarge,
\* ErrElemTooLarge or EOL.
C8_InputLimit ==
    /\ WithinInputLimit
    /\ KindOnOversizedValue =>
          /\ NoPayloadRead
          /\ last.pre.depth = 0 /\ last.pre.remaining # U64Zero =>
                last.err = "ErrValueTooLarge"
          /\ last.pre.depth = 0 /\ last.pre.remaining = U64Zero => last.err = "EOF"
          /\ last.pre.depth > 0 =>
                last.err \in {"ErrValueTooLarge", "ErrElemTooLarge", "EOL"}

\* Kind has read the header of an oversized value at the top level and failed
C8_Witness ==
    /\ KindOnOversizedValue
    /\ last.pre.depth = 0
    /\ last.pre.remaining # U64Zero
    /\ s.r.pos > last.pre.pos
    /\ last.err = "ErrValueTooLarge"
    /\ last.L > 0

----------------------------------------------------------------------------
(* Stream.Decode called repeatedly, for any target type, on a stream over  *)
(* an in-memory input; Kind may be called in between                       *)

\* the target types of Stream.Decode
StreamTypes ==
    <<UintT(64), BoolT, BytesT, ByteArrayT(1), SliceT(UintT(16)),
      ArrayT(1, BytesT), StructT(<<UintT(8), BytesT>>, 1), InterfaceT>>

\* the offset at which the value in front of the stream starts. The header of
\* a cached kind has been read already: by the Kind call before, or else by a
\* Decode that failed, and then the offset is not recorded (-1)
ValueStart ==
    IF s.kind < 0 THEN s.r.pos
    ELSE IF last.op = "Kind" THEN last.start
    ELSE -1

DecodeStep(op, r) ==
    /\ s' = r.s
    /\ last' = [op |-> op, err |-> r.err, pre |-> Pre(s), L |-> last.L,
                start |-> ValueStart]
    /\ UNCHANGED <<opened, encVars, codecVars>>

\* Stream.Decode(val)
DecodeValue == \E i \in 1..Len(StreamTypes) : DecodeStep("Decode", Decode(s, StreamTypes[i]))

\* Stream.Kind()
DecodeKind == DecodeStep("Kind", Kind(s))

DecodeNext == DecodeValue \/ DecodeKind

SpecDecode == StreamInit /\ [][DecodeNext]_vars

----------------------------------------------------------------------------
(* EncodeToBytes, DecodeBytes, Stream.Uint64 and SplitUint64 applied to    *)
(* bounded sets of values and inputs                                       *)

\* bound: number of elements of the slices that are enumerated exhaustively
MaxElems == 2

\* bound: length of the inputs of DecodeBytes that are enumerated exhaustively
MaxInputLen == 3

\* the largest value of an unsigned integer of the given bit size
U64Max(bits) == [i \in 1..8 |-> IF i > 8 - bits \div 8 THEN 255 ELSE 0]

UintValues(bits) ==
    {U64Of(0), U64Of(1), U64Of(127), U64Of(128), U64Of(255), U64Max(bits)}
        \cup (IF bits >= 16 THEN {U64Of(256), U64Of(65535)} ELSE {})
        \cup (IF bits = 64 THEN {<<1, 0, 0, 0, 0, 0, 0, 0>>, <<0, 0, 0, 1, 0, 0, 0, 0>>}
                           ELSE {})

ByteStrings == {<<>>, <<0>>, <<127>>, <<128>>, <<1, 200>>, Fill(55, 7), Fill(56, 7)}

\* the sequences v with v[i] in the domain dom[i]
RECURSIVE Product(_, _)
Product(dom, i) ==
    IF i = 0 THEN {<<>>}
    ELSE {Append(v, x) : v \in Product(dom, i - 1), x \in dom[i]}

\* a few values of every type, for the elements of composite values
RECURSIVE ElemValues(_)
ElemValues(typ) ==
    CASE typ.k = "uint" -> {U64Of(0), U64Of(1), U64Max(typ.n)}
      [] typ.k = "bool" -> BOOLEAN
      [] typ.k \in {"string", "bytes"} -> {<<>>, <<5>>, <<200, 1>>, Fill(55, 7)}
      [] typ.k = "bytearray" -> {Fill(typ.n, 0), Fill(typ.n, 200)}
      [] typ.k = "slice" -> SeqsUpTo(ElemValues(typ.sub[1]), 1)
      [] typ.k = "array" -> Product([i \in 1..typ.n |-> ElemValues(typ.sub[1])], typ.n)
      [] typ.k = "struct" ->
           Product([i \in 1..Len(typ.sub) |-> ElemValues(typ.sub[i])], Len(typ.sub))
      [] OTHER -> {<<"b", <<>>>>, <<"b", <<5>>>>, <<"l", <<>>>>}

\* the values of a type that are encoded and decoded
Values(typ) ==
    CASE typ.k = "uint" -> UintValues(typ.n)
      [] typ.k \in {"string", "bytes"} -> ByteStrings
      [] typ.k = "bytearray" -> Product([i \in 1..typ.n |-> {0, 127, 128}], typ.n)
      [] typ.k = "slice" -> SeqsUpTo(ElemValues(typ.sub[1]), MaxElems)
      [] OTHER -> ElemValues(typ)

\* the types of the values that are encoded and decoded; the last one,
\* interface{}, is a target of DecodeBytes only
CodecTypes ==
    <<UintT(8), UintT(16), UintT(64), BoolT, StringT, BytesT,
      ByteArrayT(0), ByteArrayT(1), ByteArrayT(2),
      SliceT(UintT(64)), SliceT(SliceT(BytesT)), ArrayT(2, UintT(16)),
      StructT(<<>>, 0), StructT(<<UintT(64), BytesT>>, 2),
      StructT(<<UintT(8), UintT(8), StringT>>, 1),
      StructT(<<BoolT, ArrayT(2, UintT(16))>>, 0),
      SliceT(StructT(<<BoolT, ByteArrayT(1)>>, 2)),
      InterfaceT>>

\* a single byte, the empty string, strings of one and two bytes, the empty
\* list, lists of one and two bytes, the long forms of a string and of a list
CodecAlphabet == {0, 1, 128, 129, 130, 192, 193, 194, 184, 248}

\* inputs at the boundary of the long forms: strings of 56 and 55 bytes in the
\* long form, a size with a leading zero byte, lists of 56 and 55 bytes holding
\* one string, a list whose string ends after the list, a value after a list
CodecLongInputs ==
    {<<184, 56>> \o Fill(56, 1), <<184, 55>> \o Fill(55, 1),
     <<185, 0, 56>> \o Fill(56, 1), <<183>> \o Fill(55, 1),
     <<248, 56, 183>> \o Fill(55, 1), <<248, 55, 182>> \o Fill(54, 1),
     <<249, 0, 56, 183>> \o Fill(55, 1), <<247, 182>> \o Fill(54, 1),
     <<248, 57, 184, 56>> \o Fill(55, 1), <<248, 58, 184, 56>> \o Fill(56, 1),
     <<248, 56, 183>> \o Fill(56, 1)}

\* lists of three to five elements, and lists with a nested list of two elements
CodecListInputs ==
    {<<195, 1, 1, 1>>, <<195, 1, 128, 129>>, <<196, 1, 1, 1, 1>>, <<196, 1, 128, 128, 128>>,
     <<197, 1, 1, 1, 1, 1>>, <<195, 194, 1, 1>>, <<196, 1, 194, 1, 1>>,
     <<196, 128, 194, 128, 128>>, <<197, 1, 194, 1, 1, 1>>, <<196, 1, 1, 130, 200>>}

CodecInputs == SeqsUpTo(CodecAlphabet, MaxInputLen) \cup CodecLongInputs \cup CodecListInputs

\* the bytes of the inputs of the integer decoders
IntAlphabet == {0, 1, 127, 128, 129, 130, 136, 137, 184, 192}

\* integers of 8 and 9 bytes, with and without a leading zero byte, in the
\* short and in the long form
IntLongInputs ==
    {<<136>> \o Fill(8, 255), <<136, 0>> \o Fill(7, 255), <<136>> \o Fill(7, 255),
     <<137>> \o Fill(9, 255), <<136, 1>> \o Fill(8, 0), <<135>> \o Fill(7, 1),
     <<184, 8>> \o Fill(8, 255), <<184, 56>> \o Fill(56, 1), <<132, 1, 0, 0, 0>>,
     <<132, 0, 1, 0, 0>>, <<133, 1, 0, 0, 0>>}

IntInputs == SeqsUpTo(IntAlphabet, MaxInputLen) \cup IntLongInputs

CodecInit ==
    /\ StreamIdle /\ EncIdle
    /\ cout = [op |-> "none"]
    /\ \/ \E i \in 1..(Len(CodecTypes) - 1) : \E v \in Values(CodecTypes[i]) :
             cin = [op |-> "EncodeToBytes", typ |-> CodecTypes[i], v |-> v]
       \/ \E i \in 1..Len(CodecTypes) : \E b \in CodecInputs :
             cin = [op |-> "DecodeBytes", typ |-> CodecTypes[i], b |-> b]
       \/ \E b \in IntInputs : \E known \in BOOLEAN :
             cin = [op |-> "Uint64", b |-> b, known |-> known]

\* DecodeBytes(EncodeToBytes(v)), enc being the result of EncodeToBytes
EncodeDecodeOn(enc) ==
    /\ cout' = [op |-> "EncodeDecode", enc |-> enc, dec |-> DecodeBytes(cin.typ, enc)]
    /\ UNCHANGED <<cin, streamVars, encVars>>

\* EncodeToBytes(v) and DecodeBytes of its result into a value of the type of v
CodecEncodeDecode ==
    /\ cin.op = "EncodeToBytes" /\ cout.op = "none"
    /\ EncodeDecodeOn(EncodeToBytes(cin.typ, cin.v))

\* DecodeBytes(b, val)
CodecDecodeBytes ==
    /\ cin.op = "DecodeBytes" /\ cout.op = "none"
    /\ cout' = [op |-> "DecodeBytes", dec |-> DecodeBytes(cin.typ, cin.b)]
    /\ UNCHANGED <<cin, streamVars, encVars>>

\* the result of Stream.Uint64 and the number of bytes read
Uint64Result(r) == [x |-> r.v, err |-> r.err, pos |-> r.s.r.pos]

\* Stream.Uint64 on a stream over b, and SplitUint64(b)
CodecUint64 ==
    /\ cin.op = "Uint64" /\ cout.op = "none"
    /\ cout' = [op |-> "Uint64",
                stream |-> Uint64Result(Uint64(NewStream(NewReader(cin.b, cin.known), 0))),
                split |-> SplitUint64(cin.b)]
    /\ UNCHANGED <<cin, streamVars, encVars>>

CodecNext == CodecEncodeDecode \/ CodecDecodeBytes \/ CodecUint64

SpecCodec == CodecInit /\ [][CodecNext]_vars

----------------------------------------------------------------------------
(* Claims about the codec *)

\* C1: for every value v of a supported type, DecodeBytes(EncodeToBytes(v))
\* succeeds and yields v: zero yields zero, byte sequences come back byte for byte.
C1_RoundTrip ==
    cout.op = "EncodeDecode" => cout.dec.err = "nil" /\ cout.dec.v = cin.v

\* a struct with a zero-valued integer field and a byte string has come back
C1_Witness ==
    /\ cout.op = "EncodeDecode"
    /\ cin.typ = StructT(<<UintT(64), BytesT>>, 2)
    /\ cin.v = <<U64Zero, <<200, 1>>>>
    /\ cout.enc = <<196, 128, 130, 200, 1>>
    /\ cout.dec.v = cin.v

\* the header at the start of b is not in canonical form: a size with a leading
\* zero byte, the long form for a size below 56, or a one-byte string below 128
NonCanonicalHeader(b) ==
    /\ Len(b) >= 2
    /\ \/ b[1] \in (184..191) \cup (248..255) /\ b[2] = 0
       \/ b[1] \in {184, 248} /\ b[2] < 56
       \/ b[1] = 129 /\ b[2] < 128

\* C2: when DecodeBytes(b) into an interface{} succeeds with the value v,
\* EncodeToBytes(v) is b; an input whose header is not canonical is rejected.
C2_CanonicalUniqueness ==
    cout.op = "DecodeBytes" /\ cin.typ = InterfaceT =>
        /\ cout.dec.err = "nil" => EncodeToBytes(InterfaceT, cout.dec.v) = cin.b
        /\ NonCanonicalHeader(cin.b) => cout.dec.err # "nil"

\* a list holding a string and a list has been decoded into an interface{}
C2_Witness ==
    /\ cout.op = "DecodeBytes" /\ cin.typ = InterfaceT
    /\ cout.dec.err = "nil"
    /\ cout.dec.v[1] = "l"
    /\ Len(cout.dec.v[2]) = 2
    /\ cout.dec.v[2][1][1] = "b"
    /\ cout.dec.v[2][2][1] = "l"

\* the integer that a canonical encoding p would stand for
IntOf(p) ==
    IF Len(p) = 1 THEN (IF p[1] < 128 THEN U64Of(p[1]) ELSE U64Zero)
    ELSE Fill(9 - Len(p), 0) \o Drop(p, 1)

\* b starts with the output of AppendUint64 for some integer
StartsWithCanonicalInt(b) ==
    \E n \in 1..Min(Len(b), 9) : AppendUint64(IntOf(Take(b, n))) = Take(b, n)

\* C3: Stream.Uint64 and SplitUint64 succeed exactly on the inputs whose first
\* value is the output of AppendUint64 for the integer they return, and they
\* agree: both succeed with the same integer and the same number of bytes
\* consumed, or both fail.
C3_CanonicalIntegers ==
    cout.op = "Uint64" =>
        /\ cout.split.err = "nil" <=> StartsWithCanonicalInt(cin.b)
        /\ cout.split.err = "nil" =>
              AppendUint64(cout.split.x) = Take(cin.b, Len(cin.b) - Len(cout.split.rest))
        /\ cout.stream.err = "nil" <=> cout.split.err = "nil"
        /\ cout.stream.err = "nil" =>
              /\ cout.stream.x = cout.split.x
              /\ cout.stream.pos = Len(cin.b) - Len(cout.split.rest)

\* an integer of eight bytes has been decoded by both
C3_Witness ==
    /\ cout.op = "Uint64"
    /\ cout.split.err = "nil" /\ cout.stream.err = "nil"
    /\ cout.stream.x = U64Max(64)
    /\ cout.stream.pos = 9

\* b holds one value by the rules of raw.go and nothing after it
ExactlyOneValue(b) == Split(b).err = "nil" /\ Split(b).rest = <<>>

\* the first value of b, by the rules of raw.go, decodes into the type
FirstValueDecodes(typ, b) ==
    /\ Split(b).err = "nil"
    /\ DecodeBytes(typ, Take(b, Len(b) - Len(Split(b).rest))).err = "nil"

\* Stream.Decode succeeds on a stream over b without input limit
DecodesAs(typ, b) == Decode(NewStream(NewReader(b, FALSE), 0), typ).err = "nil"

\* C4: DecodeBytes(b) succeeds if and only if b is exactly one well-formed
\* value that decodes into the target type; when the first value decodes and
\* bytes remain after it, DecodeBytes returns ErrMoreThanOneValue.
C4_NoExtraData ==
    cout.op = "DecodeBytes" =>
        /\ cout.dec.err = "nil" <=> ExactlyOneValue(cin.b) /\ DecodesAs(cin.typ, cin.b)
        /\ cout.dec.err = "nil" => WellFormed(cin.b)
        /\ FirstValueDecodes(cin.typ, cin.b) /\ Split(cin.b).rest # <<>> =>
              cout.dec.err = "ErrMoreThanOneValue"
        /\ cin.typ = InterfaceT /\ ExactlyOneValue(cin.b) /\ WellFormed(cin.b) =>
              cout.dec.err = "nil"

\* a list has been decoded into a slice and a byte remains after it
C4_Witness ==
    /\ cout.op = "DecodeBytes"
    /\ cin.typ.k = "slice"
    /\ FirstValueDecodes(cin.typ, cin.b)
    /\ Len(Split(cin.b).rest) = 1
    /\ Len(cin.b) >= 3
    /\ cout.dec.err = "ErrMoreThanOneValue"

----------------------------------------------------------------------------
(* The reader of EncodeToReader: the buffer is filled by value writes and   *)
(* properly nested lists, as buf.encode does, handed to an encReader and    *)
(* drained by Read calls with destinations of any size                      *)

\* bound: the largest encoder output that is handed to a reader
MaxReadOutput == 64

\* bound: the number of write / list operations of a buffer handed to a reader
MaxReadOps == 3

\* bound: the destination sizes 0..MaxReadLen are tried, and one destination
\* that holds the whole output
MaxReadLen == 3

ReadSizes == 0..MaxReadLen \cup {MaxReadOutput}

\* the writes of buf.encode(val)
ReaderBuild == er = NoReader /\ EncNext

\* EncodeToReader, after buf.encode: return buf.size(), &encReader{buf: buf}
ReaderOpen ==
    /\ er = NoReader /\ lstack = <<>>
    /\ ref.n <= MaxReadOps /\ size(buf) <= MaxReadOutput
    /\ er' = NewEncReader(buf)
    /\ UNCHANGED <<buf, lstack, ref, streamVars, codecVars>>

\* r.Read(b) with a destination of len bytes
ReaderRead ==
    /\ er.open
    /\ \E len \in ReadSizes : er' = [Read(er, buf, len) EXCEPT !.late = ~er.held]
    /\ UNCHANGED <<buf, lstack, ref, streamVars, codecVars>>

ReaderNext == ReaderBuild \/ ReaderOpen \/ ReaderRead

SpecReader == EncInit /\ [][ReaderNext]_vars

\* C11: writeTo, makeBytes (copyTo) and the encReader deliver the same bytes:
\* what the Read calls have delivered so far is a prefix of the output of
\* writeTo, at io.EOF it is the whole output, and makeBytes returns the same.
C11_MaterializationsAgree ==
    er.open =>
        /\ makeBytes(buf).out = writeTo(buf)
        /\ er.out = Take(writeTo(buf), Len(er.out))
        /\ er.eof => er.out = writeTo(buf)

\* a reader drained by several Read calls over a buffer in which two lists
\* open at the same payload offset and payload follows the last header
C11_Witness ==
    /\ er.open /\ er.eof
    /\ er.n < Len(er.out)
    /\ Len(buf.lheads) >= 2
    /\ buf.lheads[1].offset = buf.lheads[2].offset
    /\ buf.lheads[Len(buf.lheads)].offset < Len(buf.str)
    /\ buf.lheads[1].size >= 56

\* C12: the reader returns io.EOF only when it has delivered exactly the
\* announced size; the buffer is put into the pool once, at the first io.EOF;
\* every Read after that returns 0 bytes and io.EOF and reads no field of the
\* released buffer.
C12_ReaderReleasesAtEOF ==
    er.open =>
        /\ er.eof => Len(er.out) = er.size
        /\ er.puts = (IF er.held THEN 0 ELSE 1)
        /\ ~er.held => Len(er.out) = er.size
        /\ er.late => er.eof /\ er.n = 0
        /\ ~er.deref

\* a Read after the buffer of a long output was released
C12_Witness == er.open /\ er.late /\ er.puts = 1 /\ er.size > 56

----------------------------------------------------------------------------
(* Claims about optional struct fields *)

\* a struct type with optional fields
HasOptional(typ) == typ.k = "struct" /\ typ.n < Len(typ.sub)

\* the number of fields up to the last optional field that is not zero, the
\* number of required fields if there is none
LastNonZero(typ, v) ==
    LET nz == {i \in (typ.n + 1)..Len(typ.sub) : v[i] # ZeroValue(typ.sub[i])}
    IN  IF nz = {} THEN typ.n ELSE CHOOSE i \in nz : \A j \in nz : j <= i

\* the encodings of the first k fields, one after the other
RECURSIVE FieldEncodings(_, _, _)
FieldEncodings(typ, v, k) ==
    IF k = 0 THEN <<>>
    ELSE FieldEncodings(typ, v, k - 1) \o EncodeToBytes(typ.sub[k], v[k])

\* the struct type without the fields after the first k
TruncatedType(typ, k) == StructT(Take(typ.sub, k), Min(typ.n, k))

\* C13: a struct with optional fields is encoded as the list of its fields up to
\* the last optional field that is not zero (of all required fields if every
\* optional field is zero), in declaration order, which is the encoding of the
\* value with the omitted fields removed from the type.
C13_OptionalSuppression ==
    cout.op = "EncodeDecode" /\ HasOptional(cin.typ) =>
        /\ cout.enc = RefList(FieldEncodings(cin.typ, cin.v, LastNonZero(cin.typ, cin.v)))
        /\ cout.enc = EncodeToBytes(TruncatedType(cin.typ, LastNonZero(cin.typ, cin.v)),
                                    Take(cin.v, LastNonZero(cin.typ, cin.v)))

\* a zero optional field in front of a non-zero one, both emitted
C13_Witness ==
    /\ cout.op = "EncodeDecode" /\ HasOptional(cin.typ)
    /\ Len(cin.typ.sub) = 3 /\ cin.typ.n = 1
    /\ cin.v[2] = ZeroValue(cin.typ.sub[2])
    /\ cin.v[3] # ZeroValue(cin.typ.sub[3])
    /\ cout.enc = <<195>> \o FieldEncodings(cin.typ, cin.v, 3)

\* the encodings of the values in b, one after the other (b well-formed)
RECURSIVE ListElems(_)
ListElemsOn(r) == <<Take(r.b, Len(r.b) - Len(r.rest))>> \o ListElems(r.rest)

ListElems(b) == IF b = <<>> THEN <<>> ELSE ListElemsOn([b |-> b, rest |-> Split(b).rest])

\* b is the encoding of one list of well-formed values
IsListOfValues(b) ==
    /\ Split(b).err = "nil" /\ Split(b).k = List /\ Split(b).rest = <<>>
    /\ WellFormed(Split(b).content)

\* the elements of the list b, as far as the struct type has fields for them,
\* decode into the types of these fields
ElemsFitFields(typ, b) ==
    \A i \in 1..Min(Len(typ.sub), Len(ListElems(Split(b).content))) :
        DecodeBytes(typ.sub[i], ListElems(Split(b).content)[i]).err = "nil"

\* the number of elements of the list b
NumElems(b) == Len(ListElems(Split(b).content))

\* C14: a list of n elements that fit the fields decodes into a struct with r
\* required and o optional fields exactly if r <= n <= r + o; the fields from
\* position n on are then zero; n < r fails with "too few elements" and
\* n > r + o with "input list has too many elements".
C14_OptionalDecode ==
    /\ cout.op = "DecodeBytes" /\ HasOptional(cin.typ)
    /\ IsListOfValues(cin.b) /\ ElemsFitFields(cin.typ, cin.b)
    =>
    /\ cout.dec.err = "nil" <=>
          cin.typ.n <= NumElems(cin.b) /\ NumElems(cin.b) <= Len(cin.typ.sub)
    /\ cout.dec.err = "nil" =>
          /\ Len(cout.dec.v) = Len(cin.typ.sub)
          /\ \A i \in (NumElems(cin.b) + 1)..Len(cin.typ.sub) :
                cout.dec.v[i] = ZeroValue(cin.typ.sub[i])
          /\ \A i \in 1..NumElems(cin.b) :
                cout.dec.v[i] = DecodeBytes(cin.typ.sub[i], ListElems(Split(cin.b).content)[i]).v
    /\ NumElems(cin.b) < cin.typ.n => cout.dec.err = "too few elements"
    /\ NumElems(cin.b) > Len(cin.typ.sub) =>
          cout.dec.err = "input list has too many elements"

\* a list that ends after the required field, two optional fields set to zero
C14_Witness ==
    /\ cout.op = "DecodeBytes" /\ HasOptional(cin.typ)
    /\ IsListOfValues(cin.b) /\ ElemsFitFields(cin.typ, cin.b)
    /\ cin.typ.n = 1 /\ Len(cin.typ.sub) = 3 /\ NumElems(cin.b) = 1
    /\ cout.dec.err = "nil"
    /\ cout.dec.v[2] = ZeroValue(cin.typ.sub[2])
    /\ cout.dec.v[3] = ZeroValue(cin.typ.sub[3])

----------------------------------------------------------------------------
(* Struct tags: ProcessFields on the fields of a struct type, the cache    *)
(* entry generated for the type, and Encode and Decode of a value of it    *)

\* bound: number of fields of a struct type
MaxFields == 3

\* the fields that are combined into struct types: whether exported, the type
\* and the tokens of the tag
FieldShapes ==
    ({FALSE} \X {UintT(64)} \X {<<"">>, <<"optional">>})
    \cup ({FALSE} \X {SliceT(UintT(64))} \X {<<"tail">>})
    \cup ({TRUE} \X {UintT(64)}
              \X {<<"">>, <<"optional">>, <<"tail">>, <<"-">>, <<"-", "optional">>,
                  <<"-", "foo">>, <<"foo">>, <<"nil">>})
    \cup ({TRUE} \X {SliceT(UintT(64))}
              \X {<<"">>, <<"optional">>, <<"tail">>, <<"optional", "tail">>,
                  <<"tail", "optional">>, <<"foo", "tail">>})
    \cup ({TRUE} \X {PtrT(UintT(64), NoTags)} \X {<<"nilList">>, <<"nil", "optional">>})

FieldNames == <<"A", "B", "C", "D", "E">>

\* the struct declared with the given field shapes
FieldsOf(shapes) ==
    [i \in 1..Len(shapes) |->
        [Name |-> FieldNames[i], Index |-> i - 1, Exported |-> shapes[i][1],
         Type |-> shapes[i][2], Tag |-> shapes[i][3]]]

TagsInit ==
    /\ StreamIdle /\ EncIdle
    /\ cout = [op |-> "none"]
    /\ \E n \in 1..MaxFields : \E shapes \in [1..n -> FieldShapes] :
       \E enc \in BOOLEAN : \E dec \in BOOLEAN :
          /\ enc \/ dec => n <= 2
          /\ cin = [op |-> "struct", typ |-> DeclT(FieldsOf(shapes), enc, dec)]

\* rlpstruct.ProcessFields(allFields)
TagsProcessFields ==
    /\ cin.op = "struct" /\ cout.op = "none"
    /\ cout' = [op |-> "ProcessFields", res |-> ProcessFields(cin.typ.fields)]
    /\ UNCHANGED <<cin, streamVars, encVars>>

\* theTC.info(typ) for the struct type, then Encode and Decode of a value of
\* the type: the errors of cachedWriter and cachedDecoder, which buf.encode
\* and Stream.Decode return
TagsGenerate ==
    /\ cin.op = "struct" /\ cout.op = "none"
    /\ cout' = [op |-> "generate", info |-> generate(cin.typ),
                ProcessFields |-> ProcessFields(cin.typ.fields)]
    /\ UNCHANGED <<cin, streamVars, encVars>>

TagsNext == TagsProcessFields \/ TagsGenerate

SpecTags == TagsInit /\ [][TagsNext]_vars

\* the tokens of the tag of a field
HasToken(f, tok) == \E i \in 1..Len(f.Tag) : f.Tag[i] = tok

\* an exported, non-ignored field tagged neither optional nor tail
RequiredField(f) ==
    f.Exported /\ ~HasToken(f, "-") /\ ~HasToken(f, "optional") /\ ~HasToken(f, "tail")

\* the positions of the required fields that follow a field tagged optional
AfterOptional(fields) ==
    {j \in 1..Len(fields) :
        RequiredField(fields[j]) /\ \E i \in 1..(j - 1) : HasToken(fields[i], "optional")}

\* the positions of the required fields that follow an exported, non-ignored
\* field tagged optional
AfterKeptOptional(fields) ==
    {j \in 1..Len(fields) :
        /\ RequiredField(fields[j])
        /\ \E i \in 1..(j - 1) :
              HasToken(fields[i], "optional") /\ fields[i].Exported /\ ~HasToken(fields[i], "-")}

\* every tag of an exported field parses
AllTagsParse(fields) ==
    \A i \in 1..Len(fields) :
        fields[i].Exported => parseTag(fields[i], lastPublicField(fields)).err = NoTagError

\* the first position in a set of positions
First(S) == CHOOSE j \in S : \A k \in S : j <= k

\* C15 as stated: a required field after a field tagged optional makes
\* ProcessFields return a TagError naming it, and the cache entry of the type
\* holds that error for the encoder and for the decoder.
C15_RequiredAfterOptional_AsStated ==
    /\ cout.op = "ProcessFields" /\ AfterOptional(cin.typ.fields) # {} =>
          /\ cout.res.err # NoTagError
          /\ \E j \in AfterOptional(cin.typ.fields) :
                cout.res.err.Field = cin.typ.fields[j].Name
    /\ cout.op = "generate" /\ AfterOptional(cin.typ.fields) # {} =>
          /\ cout.info.writerErr = <<"TagError", cout.ProcessFields.err>>
          /\ cout.info.decoderErr = <<"TagError", cout.ProcessFields.err>>
          /\ cout.ProcessFields.err # NoTagError

\* C15: when every tag parses, the first required field after an exported,
\* non-ignored optional field makes ProcessFields return the TagError "must be
\* optional" naming it; the cache entry of the struct type holds this error for
\* the encoder unless the type implements Encoder, and for the decoder unless
\* it implements Decoder; any other field after an optional one is accepted.
C15_RequiredAfterOptional ==
    /\ cout.op = "ProcessFields" /\ AllTagsParse(cin.typ.fields) =>
          IF AfterKeptOptional(cin.typ.fields) # {}
          THEN /\ cout.res.err.Err = "must be optional because preceding field is optional"
               /\ cout.res.err.Field =
                     cin.typ.fields[First(AfterKeptOptional(cin.typ.fields))].Name
          ELSE cout.res.err = NoTagError
    /\ cout.op = "generate" /\ AllTagsParse(cin.typ.fields)
          /\ AfterKeptOptional(cin.typ.fields) # {} =>
          /\ cout.ProcessFields.err.Field =
                cin.typ.fields[First(AfterKeptOptional(cin.typ.fields))].Name
          /\ ~cin.typ.encoder => cout.info.writerErr = <<"TagError", cout.ProcessFields.err>>
          /\ ~cin.typ.decoder => cout.info.decoderErr = <<"TagError", cout.ProcessFields.err>>

\* the cache entry of a struct with a required field after two optional ones
C15_Witness ==
    /\ cout.op = "generate" /\ AllTagsParse(cin.typ.fields)
    /\ Len(cin.typ.fields) = 3
    /\ AfterKeptOptional(cin.typ.fields) = {3}
    /\ ~cin.typ.encoder /\ ~cin.typ.decoder
    /\ cout.info.writerErr[1] = "TagError"
    /\ cout.info.writerErr = cout.info.decoderErr

\* a field on which the tail tag is allowed: the last exported field, a slice,
\* not tagged optional
TailAllowed(fields, j) ==
    /\ fields[j].Exported
    /\ fields[j].Index = lastPublicField(fields)
    /\ KindOf(fields[j].Type) = "slice"
    /\ ~HasToken(fields[j], "optional")

\* ProcessFields returned a TagError that cites field j and one of its tags
CitesField(res, fields, j) ==
    /\ res.err # NoTagError
    /\ res.err.Field = fields[j].Name
    /\ HasToken(fields[j], res.err.Tag)

\* C16 as stated: the tail tag is accepted only where it is allowed, and on
\* every other field that carries it ProcessFields returns a TagError citing
\* the field and the tag.
C16_TailTag_AsStated ==
    cout.op = "ProcessFields" =>
        \A j \in 1..Len(cin.typ.fields) :
            HasToken(cin.typ.fields[j], "tail") /\ ~TailAllowed(cin.typ.fields, j) =>
                CitesField(cout.res, cin.typ.fields, j)

\* no exported field in front of field j has a tag that fails to parse
EarlierTagsParse(fields, j) ==
    \A i \in 1..(j - 1) :
        fields[i].Exported => parseTag(fields[i], lastPublicField(fields)).err = NoTagError

\* C16: parseTag accepts a tail tag only on the last exported field, of slice
\* type and without optional; it accepts the tag <<"tail">> on such a field;
\* on every other exported field that carries tail, in either order with
\* optional, ProcessFields returns a TagError citing the field and one of its
\* tags, unless the tag of an exported field in front of it fails first.
C16_TailTag ==
    cout.op = "ProcessFields" =>
        \A j \in 1..Len(cin.typ.fields) :
            HasToken(cin.typ.fields[j], "tail") /\ cin.typ.fields[j].Exported =>
                /\ parseTag(cin.typ.fields[j], lastPublicField(cin.typ.fields)).err = NoTagError
                      => TailAllowed(cin.typ.fields, j)
                /\ TailAllowed(cin.typ.fields, j) /\ cin.typ.fields[j].Tag = <<"tail">>
                      => parseTag(cin.typ.fields[j], lastPublicField(cin.typ.fields)).ts.Tail
                         /\ parseTag(cin.typ.fields[j],
                                     lastPublicField(cin.typ.fields)).err = NoTagError
                /\ ~TailAllowed(cin.typ.fields, j) /\ EarlierTagsParse(cin.typ.fields, j)
                      => CitesField(cout.res, cin.typ.fields, j)

\* a slice field tagged tail in front of another exported field
C16_Witness ==
    /\ cout.op = "ProcessFields"
    /\ Len(cin.typ.fields) = 3
    /\ cin.typ.fields[2].Exported /\ cin.typ.fields[3].Exported
    /\ cin.typ.fields[2].Tag = <<"tail">>
    /\ KindOf(cin.typ.fields[2].Type) = "slice"
    /\ cout.res.err = TagError("B", "tail", "must be on last field")


----------------------------------------------------------------------------
(* Pointer fields: a struct with a pointer field A, tagged or not, and a  *)
(* field B uint64 is encoded, and decoded from a list of two elements      *)

\* the number of fields before the first optional one (firstOptionalField)
RECURSIVE requiredBefore(_, _)
requiredBefore(tags, i) ==
    IF i > Len(tags) \/ tags[i].Optional THEN i - 1 ELSE requiredBefore(tags, i + 1)

\* theTC.infoWhileGenerating(typ, tags) in structFields: the typeinfo of a
\* field is the one of its type and its tags
fieldType(typ, ts) == IF typ.k = "ptr" THEN PtrT(typ.sub[1], ts) ELSE typ

\* structFields(typ) for a struct without tag errors: the fields that the
\* struct writer and the struct decoder loop over
structFieldsOn(pf) ==
    StructT([i \in 1..Len(pf.fields) |-> fieldType(pf.fields[i].Type, pf.tags[i])],
            requiredBefore(pf.tags, 1))

structFields(allFields) == structFieldsOn(ProcessFields(allFields))

\* the types the field A points to
PtrElems ==
    {UintT(64), UintT(8), BoolT, StringT, BytesT, ByteArrayT(2), SliceT(UintT(64)),
     ArrayT(2, UintT(16)), StructT(<<UintT(64)>>, 1), InterfaceT, BigIntT}

\* the tags of the field A
PtrTags == {"", "nil", "nilString", "nilList"}

\* big integers: zero, one, 2^64 and -1
BigInts ==
    {BigInt(FALSE, <<>>), BigInt(FALSE, <<1>>), BigInt(FALSE, <<1>> \o Fill(8, 0)),
     BigInt(TRUE, <<1>>)}

\* the values a pointer of the field A points to
PtrElemValues(etyp) ==
    IF etyp.k = "bigint" THEN BigInts \ {BigInt(TRUE, <<1>>)} ELSE ElemValues(etyp)

\* the encodings of the first element of the decoded list: the two empty
\* values, single bytes, strings and lists of one and two bytes, and a string
\* of nine bytes
PtrElemInputs ==
    {<<128>>, <<192>>, <<0>>, <<1>>, <<129, 200>>, <<130, 1, 2>>, <<193, 1>>, <<194, 1, 2>>,
     <<193, 128>>, <<137, 1>> \o Fill(8, 0), <<129, 1>>}

\* struct { A *elem `rlp:"tag"`; B uint64 }
PtrStruct(etyp, tag) ==
    FieldsOf(<< <<TRUE, PtrT(etyp, NoTags), <<tag>> >>, <<TRUE, UintT(64), <<"">> >> >>)

PtrInit ==
    /\ StreamIdle /\ EncIdle
    /\ cout = [op |-> "none"]
    /\ \E etyp \in PtrElems : \E tag \in PtrTags :
          \/ \E pv \in {NilPtr} \cup {PtrTo(x) : x \in PtrElemValues(etyp)} :
                cin = [op |-> "EncodeToBytes", elem |-> etyp, tag |-> tag,
                       typ |-> structFields(PtrStruct(etyp, tag)),
                       v |-> <<pv, U64Of(7)>>]
          \/ \E x \in PtrElemInputs :
                cin = [op |-> "DecodeBytes", elem |-> etyp, tag |-> tag,
                       typ |-> structFields(PtrStruct(etyp, tag)),
                       x |-> x, b |-> <<192 + Len(x) + 1>> \o x \o <<7>>]

PtrNext == CodecEncodeDecode \/ CodecDecodeBytes

SpecPtr == PtrInit /\ [][PtrNext]_vars

\* the empty value that stands for a nil pointer: 0x80 for a pointer to an
\* unsigned integer, string, bool, byte array or byte slice, or with the tag
\* nilString; 0xC0 for the other pointers, or with the tag nilList
AbsentMarker(etyp, tag) ==
    CASE tag = "nilString" -> 128
      [] tag = "nilList" -> 192
      [] OTHER -> IF etyp.k \in {"uint", "bool", "string", "bytes", "bytearray"}
                  THEN 128 ELSE 192

\* C17 for the pointers to the element types in elems
NilPointers(elems) ==
    /\ cin.op = "EncodeToBytes" /\ cout.op = "EncodeDecode" /\ cin.elem \in elems
       /\ cin.v[1] = NilPtr =>
          cout.enc = <<194, AbsentMarker(cin.elem, cin.tag), 7>>
    /\ cin.op = "DecodeBytes" /\ cout.op = "DecodeBytes" /\ cin.elem \in elems
       /\ cin.tag # "" =>
          /\ cin.x = <<AbsentMarker(cin.elem, cin.tag)>> =>
                cout.dec.err = "nil" /\ cout.dec.v = <<NilPtr, U64Of(7)>>
          /\ cin.x \in {<<128>>, <<192>>} /\ cin.x # <<AbsentMarker(cin.elem, cin.tag)>> =>
                cout.dec.err # "nil"
          /\ cin.x \notin {<<128>>, <<192>>} =>
                IF DecodeBytes(cin.elem, cin.x).err = "nil"
                THEN /\ cout.dec.err = "nil"
                     /\ cout.dec.v = <<PtrTo(DecodeBytes(cin.elem, cin.x).v), U64Of(7)>>
                ELSE cout.dec.err # "nil"

\* C17: a nil pointer is encoded as the empty string when it points to an
\* unsigned integer, string, bool, byte array or byte slice or is tagged
\* nilString, and as the empty list otherwise or when tagged nilList; a field
\* with a nil-family tag decodes that empty kind to a nil pointer, rejects the
\* other empty kind, and decodes a non-empty value into a newly allocated target
C17_NilPointers == NilPointers(PtrElems)

\* the same without the pointers to big.Int
C17_NilPointers_NoBigInt == NilPointers(PtrElems \ {BigIntT})

\* a nil-tagged pointer field was decoded from the empty value of its kind,
\* and a nil pointer was encoded in a field tagged nilList
C17_Witness ==
    \/ /\ cin.op = "DecodeBytes" /\ cout.op = "DecodeBytes" /\ cin.tag = "nil"
       /\ cin.x = <<192>> /\ cout.dec.err = "nil" /\ cout.dec.v[1] = NilPtr
    \/ /\ cin.op = "EncodeToBytes" /\ cout.op = "EncodeDecode" /\ cin.tag = "nilList"
       /\ cin.v[1] = NilPtr /\ cin.elem = UintT(64) /\ cout.enc = <<194, 192, 7>>


----------------------------------------------------------------------------
(* Encode, EncodeToBytes and EncodeToReader of values whose writer may     *)
(* return an error. The sink of Encode is an io.Writer that is not an      *)
(* encoder buffer, or an EncoderBuffer made by NewEncoderBuffer(dst),      *)
(* which is flushed to dst afterwards; buf is the buffer of the            *)
(* EncoderBuffer, er the reader that EncodeToReader returns                *)

\* values of a type with EncodeRLP: the bytes it writes and the error it returns
CoderValues ==
    {[out |-> <<>>, err |-> NoErr], [out |-> <<5>>, err |-> NoErr],
     [out |-> <<>>, err |-> <<"EncodeRLP failed">>],
     [out |-> <<5>>, err |-> <<"EncodeRLP failed">>]}

\* the pointers to big integers
BigIntPtrs == {NilPtr} \cup {PtrTo(x) : x \in BigInts}

\* the values that are encoded, as pairs of a type and a value of it
EncodeInputs ==
    ({UintT(64)} \X {U64Of(0), U64Of(1024)})
    \cup ({UnsupportedT} \X {<<>>})
    \cup ({SliceT(UnsupportedT)} \X {<<>>})
    \cup ({StructT(<<UintT(64), UnsupportedT>>, 2)} \X {<<U64Of(1), <<>>>>})
    \cup ({BigIntT} \X BigInts)
    \cup ({PtrT(BigIntT, NoTags)} \X BigIntPtrs)
    \cup ({SliceT(PtrT(BigIntT, NoTags))} \X SeqsUpTo(BigIntPtrs, MaxElems))
    \cup ({SliceT(SliceT(BigIntT))} \X SeqsUpTo(SeqsUpTo(BigInts, 1), MaxElems))
    \cup ({StructT(<<UintT(64), BigIntT, StringT>>, 3)}
             \X ({U64Of(1)} \X BigInts \X {<<>>, <<5>>}))
    \cup ({SliceT(CoderT)} \X SeqsUpTo(CoderValues, MaxElems))
    \cup ({PtrT(CoderT, NoTags)} \X {PtrTo(x) : x \in CoderValues})

EncodeInit ==
    /\ StreamIdle /\ EncIdle
    /\ cout = [op |-> "none"]
    /\ \E in \in EncodeInputs :
          \/ \E sink \in {"Writer", "EncoderBuffer"} :
                cin = [op |-> "Encode", sink |-> sink, typ |-> in[1], v |-> in[2]]
          \/ \E op \in {"EncodeToBytes", "EncodeToReader"} :
                cin = [op |-> op, sink |-> "none", typ |-> in[1], v |-> in[2]]

\* Encode(w, val) for a w that is no encoder buffer, b being the pooled
\* buffer after buf.encode(val): dst holds the bytes written to w
EncodeWriterOn(b) ==
    cout' = [op |-> "Encode", err |-> b.werr,
             dst |-> IF b.werr # NoErr THEN <<>> ELSE writeTo(b)]

EncodeWriter ==
    /\ cin.op = "Encode" /\ cin.sink = "Writer" /\ cout.op = "none"
    /\ EncodeWriterOn(encode(EmptyBuf, cin.typ, cin.v))
    /\ UNCHANGED <<cin, streamVars, encVars>>

\* Encode(w, val) for w = NewEncoderBuffer(dst), b being the buffer of w
\* after buf.encode(val)
EncodeBufferOn(b) ==
    /\ buf' = [b EXCEPT !.werr = NoErr]
    /\ cout' = [op |-> "Encode", err |-> b.werr, dst |-> <<>>]

EncodeBuffer ==
    /\ cin.op = "Encode" /\ cin.sink = "EncoderBuffer" /\ cout.op = "none"
    /\ EncodeBufferOn(encode(buf, cin.typ, cin.v))
    /\ UNCHANGED <<cin, streamVars, lstack, ref, er>>

\* w.Flush() after Encode(w, val)
EncodeFlush ==
    /\ cin.op = "Encode" /\ cin.sink = "EncoderBuffer" /\ cout.op = "Encode"
    /\ cout' = [op |-> "Flush", err |-> cout.err, dst |-> writeTo(buf)]
    /\ buf' = EmptyBuf
    /\ UNCHANGED <<cin, streamVars, lstack, ref, er>>

\* EncodeToBytes(val)
EncodeBytes ==
    /\ cin.op = "EncodeToBytes" /\ cout.op = "none"
    /\ cout' = [op |-> "EncodeToBytes",
                res |-> EncodeToBytesOn(encode(EmptyBuf, cin.typ, cin.v))]
    /\ UNCHANGED <<cin, streamVars, encVars>>

\* EncodeToReader(val), b being the pooled buffer after buf.encode(val)
EncodeToReaderOn(b) ==
    IF b.werr # NoErr
    THEN /\ cout' = [op |-> "EncodeToReader", size |-> 0, err |-> b.werr]
         /\ er' = NoReader
    ELSE /\ cout' = [op |-> "EncodeToReader", size |-> size(b), err |-> NoErr]
         /\ er' = NewEncReader(b)

EncodeReader ==
    /\ cin.op = "EncodeToReader" /\ cout.op = "none"
    /\ EncodeToReaderOn(encode(EmptyBuf, cin.typ, cin.v))
    /\ UNCHANGED <<cin, streamVars, buf, lstack, ref>>

EncodeNext == EncodeWriter \/ EncodeBuffer \/ EncodeFlush \/ EncodeBytes \/ EncodeReader

SpecEncode == EncodeInit /\ [][EncodeNext]_vars

\* the error that the writer of the type returns for the value: the error of
\* the type, else the error of the first part of the value that has one
RECURSIVE ValueError(_, _)
RECURSIVE FirstError(_, _, _)
FirstError(types, v, i) ==
    IF i > Len(v) THEN NoErr
    ELSE IF ValueError(types[i], v[i]) # NoErr THEN ValueError(types[i], v[i])
    ELSE FirstError(types, v, i + 1)

ValueError(typ, v) ==
    CASE typ.k = "bigint" -> IF v.neg THEN <<"ErrNegativeBigInt">> ELSE NoErr
      [] typ.k = "coder" -> v.err
      [] typ.k = "ptr" -> IF v = NilPtr THEN NoErr ELSE ValueError(typ.sub[1], v[2])
      [] typ.k = "slice" -> FirstError([j \in 1..Len(v) |-> typ.sub[1]], v, 1)
      [] typ.k = "struct" -> FirstError(typ.sub, v, 1)
      [] OTHER -> NoErr

WriterError(typ, v) ==
    IF writerErr(typ) # NoErr THEN writerErr(typ) ELSE ValueError(typ, v)

\* C18 for the sinks of Encode in sinks
NoPartialOutput(sinks) ==
    WriterError(cin.typ, cin.v) # NoErr =>
       /\ cout.op = "Encode" /\ cin.sink \in sinks =>
             /\ cout.err = WriterError(cin.typ, cin.v)
             /\ cout.dst = <<>>
             /\ cin.sink = "EncoderBuffer" => writeTo(buf) = <<>>
       /\ cout.op = "Flush" /\ cin.sink \in sinks => cout.dst = <<>>
       /\ cout.op = "EncodeToBytes" =>
             cout.res = [b |-> <<>>, err |-> WriterError(cin.typ, cin.v)]
       /\ cout.op = "EncodeToReader" =>
             /\ cout.err = WriterError(cin.typ, cin.v)
             /\ cout.size = 0 /\ er = NoReader

\* C18: when the writer returns an error, Encode returns that error and no
\* byte has been written to the sink, EncodeToBytes returns no bytes and
\* EncodeToReader returns no reader
C18_NoPartialOutput == NoPartialOutput({"Writer", "EncoderBuffer"})

\* the same for the sinks of Encode that are no encoder buffer
C18_NoPartialOutput_PooledBuffer == NoPartialOutput({"Writer"})

\* a writer failed in the middle of a list after it had written an element
C18_Witness ==
    /\ cout.op \in {"Encode", "EncodeToBytes", "EncodeToReader"}
    /\ cin.typ = SliceT(PtrT(BigIntT, NoTags))
    /\ Len(cin.v) = 2 /\ cin.v[1] = PtrTo(BigInt(FALSE, <<1>>))
    /\ cin.v[2] = PtrTo(BigInt(TRUE, <<1>>))


----------------------------------------------------------------------------
(* Raw values: Stream.Raw on a stream over the input, and DecodeBytes of   *)
(* the input into a RawValue and into a slice of RawValue                   *)

\* inputs with one-byte strings below 0x80 in a string header, alone, before
\* another value and in lists
RawInputs ==
    CodecInputs \cup {<<129, 5>>, <<129, 5, 1>>, <<194, 129, 5>>, <<195, 1, 129, 5>>}

RawInit ==
    /\ StreamIdle /\ EncIdle
    /\ cout = [op |-> "none"]
    /\ \E b \in RawInputs :
          \/ cin = [op |-> "Raw", b |-> b]
          \/ \E typ \in {RawValueT, SliceT(RawValueT)} :
                cin = [op |-> "DecodeBytes", typ |-> typ, b |-> b]

\* the result of Stream.Raw and the number of bytes read
RawResult(r) == [op |-> "Raw", b |-> r.b, err |-> r.err, pos |-> r.s.r.pos]

\* Stream.Raw() on a new stream over the input
RawStream ==
    /\ cin.op = "Raw" /\ cout.op = "none"
    /\ cout' = RawResult(Raw(NewStream(NewReader(cin.b, FALSE), 0)))
    /\ UNCHANGED <<cin, streamVars, encVars>>

RawNext == RawStream \/ CodecDecodeBytes

SpecRaw == RawInit /\ [][RawNext]_vars

\* b is the canonical encoding of one value: Split accepts it with nothing
\* left, and the content of a list is a sequence of such encodings
Canonical(b) ==
    /\ Split(b).err = "nil" /\ Split(b).rest = <<>>
    /\ Split(b).k = List => WellFormed(Split(b).content)

\* b is one value with a header in the shortest form; the content is not looked at
OneValue(b) ==
    \/ Split(b).err = "nil" /\ Split(b).rest = <<>>
    \/ Len(b) = 2 /\ b[1] = 129 /\ b[2] < 128

\* C19 with the given meaning of canonical bytes
RawReturns(Good(_)) ==
    /\ cout.op = "Raw" /\ cout.err = "nil" =>
          /\ cout.pos = Len(cout.b) /\ cout.b = Take(cin.b, cout.pos)
          /\ Good(cout.b)
    /\ cout.op = "DecodeBytes" /\ cout.dec.err = "nil" =>
          IF cin.typ = RawValueT THEN Good(cout.dec.v)
          ELSE \A i \in 1..Len(cout.dec.v) : Good(cout.dec.v[i])

\* C19: Stream.Raw consumes exactly one value, the bytes it returns are the
\* canonical encoding of that value, and a RawValue decoded from a stream
\* holds canonical bytes
C19_RawIsCanonical == RawReturns(Canonical)

\* the same for the header alone: the bytes are one value as its header
\* delimits it, with a header in the shortest form
C19_RawIsOneValue == RawReturns(OneValue)

\* Raw returned a list with a string in it, read from an input with more bytes
C19_Witness ==
    /\ cout.op = "Raw" /\ cout.err = "nil"
    /\ Len(cout.b) > 2 /\ cout.b[1] >= 192 /\ Len(cin.b) > Len(cout.b)


----------------------------------------------------------------------------
(* The stream driven through all of its reading operations, on inputs with *)
(* empty strings and empty lists                                           *)

\* header and payload bytes of the inputs: a single byte, the empty string,
\* a string of one byte, the empty list, lists of one and two payload bytes
EOLAlphabet == {1, 128, 129, 192, 193, 194}

\* lists that hold a list and a value after it
EOLInputs ==
    SeqsUpTo(EOLAlphabet, MaxStreamLen)
    \cup {<<195, 193, 1, 1>>, <<195, 192, 128, 1>>, <<196, 194, 1, 128, 1>>}

StreamOpsInit ==
    /\ EncIdle /\ CodecIdle
    /\ \E data \in EOLInputs : \E known \in BOOLEAN :
          /\ s = NewStream(NewReader(data, known), 0)
          /\ last = [op |-> "Reset", err |-> "nil", pre |-> Pre(ZeroStream),
                     L |-> IF known THEN Len(data) ELSE -1]
    /\ opened = <<>>

\* Stream.Bool()
StreamBool == StreamStep("Bool", Bool(s))

\* Stream.BigInt()
StreamBigInt == StreamStep("BigInt", streamDecodeBigInt(s))

\* Stream.ReadUint256(dst)
StreamReadUint256 == StreamStep("ReadUint256", ReadUint256(s))

\* Stream.ReadBytes(b) for a b of length 0, 1 or 2
StreamReadBytes == \E len \in 0..2 : StreamStep("ReadBytes", ReadBytes(s, len))

StreamOpsNext ==
    \/ StreamNext
    \/ StreamBool \/ StreamBigInt \/ StreamReadUint256 \/ StreamReadBytes

SpecStreamOps == StreamOpsInit /\ [][StreamOpsNext]_vars

\* the innermost open list has no bytes left and no header is cached: the
\* remaining count of the list is zero, or the reader stands at the end of the
\* list's content and every byte counted for the list was delivered
AtEndOfList ==
    /\ Len(opened) > 0 /\ s.kind < 0
    /\ \/ s.stack[Len(s.stack)] = U64Zero
       \/ /\ ~opened[Len(opened)].broken
          /\ s.r.pos = opened[Len(opened)].start + U64ToNat(opened[Len(opened)].size)

\* two calls of Kind in a row on the stream st return the same, and the
\* second one leaves the stream as it is
KindRepeats(st) ==
    /\ Kind(Kind(st).s).kind = Kind(st).kind
    /\ Kind(Kind(st).s).size = Kind(st).size
    /\ Kind(Kind(st).s).err = Kind(st).err
    /\ Kind(Kind(st).s).s = Kind(st).s

\* C20: at the end of the innermost open list without a cached header, Kind
\* and every operation that consumes a value return EOL and leave the stream
\* as it is (nothing is read, the stack is unchanged), and ListEnd leaves the
\* list; with a cached header, Kind returns the cached kind and size and
\* leaves the stream as it is, and two calls of Kind in a row return the same
C20_EndOfList ==
    /\ [][AtEndOfList =>
            IF last'.op = "ListEnd"
            THEN last'.err = "nil" /\ Len(s'.stack) = Len(s.stack) - 1
            ELSE last'.err = "EOL" /\ s' = s]_vars
    /\ [][s.kind >= 0 /\ last'.op = "Kind" =>
            s' = s /\ Kind(s).kind = s.kind /\ Kind(s).size = s.size]_vars
    /\ [](KindRepeats(s))

\* every kind of operation returned EOL at the end of a list, and Kind was
\* called with a cached header
C20_Witness ==
    /\ last.op \in {"Bytes", "ReadBytes", "Raw", "Uint", "Bool", "BigInt", "ReadUint256",
                    "List", "Kind"}
    /\ last.err = "EOL" /\ AtEndOfList /\ Len(opened) = 2
    /\ opened[2].size # U64Zero


----------------------------------------------------------------------------
(* Claims about ListEnd of the stream *)

\* the innermost open list has bytes that were not read: the reader stands
\* before the end of the list's content and no read for the list has failed
UnreadInList ==
    /\ Len(opened) > 0 /\ ~opened[Len(opened)].broken
    /\ s.r.pos < opened[Len(opened)].start + U64ToNat(opened[Len(opened)].size)

\* C21: ListEnd returns errNotInList when no list is open and errNotAtEOL
\* when the innermost list has bytes left, and leaves the stack, the
\* remaining counts and the cached kind as they are in both cases; otherwise
\* it removes exactly the innermost level and clears the cached kind
C21_ListEndPreconditions ==
    [][last'.op = "ListEnd" =>
         /\ Len(s.stack) = 0 => last'.err = "errNotInList" /\ s' = s
         /\ Len(s.stack) > 0 /\ s.stack[Len(s.stack)] # U64Zero =>
               last'.err = "errNotAtEOL" /\ s' = s
         /\ UnreadInList => last'.err = "errNotAtEOL" /\ s' = s
         /\ Len(s.stack) > 0 /\ s.stack[Len(s.stack)] = U64Zero =>
               /\ last'.err = "nil"
               /\ s'.stack = Take(s.stack, Len(s.stack) - 1)
               /\ s'.kind = -1
               /\ s'.r = s.r /\ s'.remaining = s.remaining /\ s'.limited = s.limited]_vars

\* ListEnd closed a list inside another one while a header was cached
C21_Witness ==
    /\ last.op = "ListEnd" /\ last.err = "nil" /\ last.pre.cached
    /\ last.pre.depth = 2 /\ Len(s.stack) = 1 /\ s.kind = -1


----------------------------------------------------------------------------
(* Claims about ignored fields *)

\* an exported field with the token "-"
IgnoredField(f) == f.Exported /\ HasToken(f, "-")

\* the field list without the positions in drop
RECURSIVE WithoutFields(_, _, _)
WithoutFields(fields, drop, i) ==
    IF i > Len(fields) THEN <<>>
    ELSE IF i \in drop THEN WithoutFields(fields, drop, i + 1)
    ELSE <<fields[i]>> \o WithoutFields(fields, drop, i + 1)

\* the field list without the ignored fields
WithoutIgnored(fields) ==
    WithoutFields(fields, {i \in 1..Len(fields) : IgnoredField(fields[i])}, 1)

\* C22: ProcessFields returns for a field list what it returns for the list
\* without the exported fields tagged "-", whatever their position and their
\* other tokens
C22_IgnoredEntirely ==
    cout.op = "ProcessFields" =>
       cout.res = ProcessFields(WithoutIgnored(cin.typ.fields))

\* the same for the field lists in which the tag of every ignored field
\* parses and no ignored field follows a field tagged tail
C22_IgnoredWhenParsed ==
    /\ cout.op = "ProcessFields"
    /\ \A i \in 1..Len(cin.typ.fields) :
          IgnoredField(cin.typ.fields[i]) =>
             /\ parseTag(cin.typ.fields[i], lastPublicField(cin.typ.fields)).err = NoTagError
             /\ \A j \in 1..(i - 1) :
                   ~(cin.typ.fields[j].Exported /\ HasToken(cin.typ.fields[j], "tail"))
    => cout.res = ProcessFields(WithoutIgnored(cin.typ.fields))

\* ProcessFields ran on a struct with an ignored field between two kept fields
C22_Witness ==
    /\ cout.op = "ProcessFields" /\ Len(cin.typ.fields) = 3
    /\ IgnoredField(cin.typ.fields[2])
    /\ cout.res.err = NoTagError /\ Len(cout.res.fields) = 2


----------------------------------------------------------------------------
(* The EncoderBuffer driven with ListEnd calls for any index: indexes that *)
(* List() never returned, lists that are closed already, and open lists.   *)
(* lstack holds the indexes of the lists that are open, cout the last call *)
(* of ListEnd: its index, the buffer before and after it and whether it    *)
(* returned                                                                *)

\* the indexes passed to ListEnd
ListEndIndexes == -1..MaxEncOps

\* the sequence without the elements equal to x
RECURSIVE Without(_, _)
Without(q, x) ==
    IF q = <<>> THEN <<>>
    ELSE IF q[1] = x THEN Without(Tail(q), x)
    ELSE <<q[1]>> \o Without(Tail(q), x)

\* buf.lheads[index] in listEnd: an index outside of the slice panics
listEndPanics(b, index) == index < 0 \/ index >= Len(b.lheads)

\* EncoderBuffer.ListEnd(index) for any index
EncListEndAny ==
    /\ ref.n < MaxEncOps
    /\ \E index \in ListEndIndexes :
          /\ cout' = [op |-> "ListEnd", index |-> index, pre |-> buf,
                      post |-> IF listEndPanics(buf, index) THEN buf ELSE listEnd(buf, index),
                      wasOpen |-> \E k \in 1..Len(lstack) : lstack[k] = index,
                      result |-> IF listEndPanics(buf, index) THEN "panic" ELSE "returned"]
          /\ buf' = IF listEndPanics(buf, index) THEN buf ELSE listEnd(buf, index)
          /\ lstack' = Without(lstack, index)
    /\ ref' = [ref EXCEPT !.n = @ + 1]
    /\ UNCHANGED <<er, cin, streamVars>>

EncMisuseNext == EncWriteBytes \/ EncWriteUint64 \/ EncList \/ EncListEndAny

SpecEncMisuse == EncInit /\ [][EncMisuseNext]_vars

\* C23: a ListEnd call for an index that List() never returned, or for a list
\* that is closed already, is reported as an error and leaves the header
\* records and the total of the header sizes as they are
C23_CloseWithoutOpen ==
    cout.op = "ListEnd" /\ ~cout.wasOpen =>
       /\ cout.result = "panic"
       /\ cout.post.lheads = cout.pre.lheads /\ cout.post.lhsize = cout.pre.lhsize

\* the same for the indexes that List() never returned
C23_CloseOfUnknownIndex ==
    cout.op = "ListEnd" /\ listEndPanics(cout.pre, cout.index) =>
       /\ cout.result = "panic"
       /\ cout.post.lheads = cout.pre.lheads /\ cout.post.lhsize = cout.pre.lhsize

\* ListEnd was called for a list that was closed before
C23_Witness ==
    /\ cout.op = "ListEnd" /\ ~cout.wasOpen
    /\ cout.index >= 0 /\ cout.index < Len(cout.pre.lheads)


----------------------------------------------------------------------------
(* Inputs that end inside a value: the Stream and the functions of raw.go  *)
(* on the same input. cout holds the call of a function of raw.go on the   *)
(* bytes the stream has not read                                           *)

\* Stream.ReadBytes(b) for a b of length 1
TruncReadBytes == StreamStep("ReadBytes", ReadBytes(s, 1))

\* header and payload bytes of the inputs: a single byte, the header of a
\* string of one byte, the headers of lists of one and two payload bytes
TruncAlphabet == {1, 129, 193, 194}

TruncInit ==
    /\ EncIdle /\ CodecIdle
    /\ \E data \in SeqsUpTo(TruncAlphabet, MaxStreamLen) :
       \E known \in BOOLEAN : \E lim \in 0..MaxLimit :
          /\ lim > 0 => ~known
          /\ s = NewStream(NewReader(data, known), lim)
          /\ last = [op |-> "Reset", err |-> "nil", pre |-> Pre(ZeroStream),
                     L |-> IF lim > 0 THEN lim ELSE IF known THEN Len(data) ELSE -1]
    /\ opened = <<>>

\* Split, SplitString and SplitUint64 on the bytes after the reader's position
TruncSplit ==
    /\ cout.op = "none"
    /\ cout' = [op |-> "Split", b |-> Drop(s.r.data, s.r.pos),
                Split |-> Split(Drop(s.r.data, s.r.pos)).err,
                SplitString |-> SplitString(Drop(s.r.data, s.r.pos)).err,
                SplitUint64 |-> SplitUint64(Drop(s.r.data, s.r.pos)).err]
    /\ UNCHANGED <<streamVars, encVars, cin>>

TruncNext ==
    \/ StreamNext
    \/ StreamBool \/ StreamBigInt \/ StreamReadUint256 \/ TruncReadBytes
    \/ TruncSplit

SpecTrunc == TruncInit /\ [][TruncNext]_vars

\* the functions of raw.go were called on b and all of them returned err
SplitReturned(b, err) ==
    cout.op = "Split" /\ cout.b = b =>
        cout.Split = err /\ cout.SplitString = err /\ cout.SplitUint64 = err

\* the operations of the Stream that read the content of a string
ConsumingReads == {"Bytes", "Uint", "Raw", "Bool", "BigInt", "ReadUint256", "ReadBytes"}

\* the step is a consuming read of the Stream
ConsumingRead == last'.op \in ConsumingReads /\ cout' = cout

\* the next value of the stream st is a string whose header declares one byte
\* of content, and the input ends with that header: the header is the last
\* byte, is not read yet and is within the input limit, or it is read and
\* cached and no byte is left
AtTruncatedString(st) ==
    /\ Len(st.r.data) > 0 /\ st.r.data[Len(st.r.data)] = 129
    /\ \/ /\ st.kind < 0 /\ st.r.pos + 1 = Len(st.r.data)
          /\ st.limited => st.remaining # U64Zero
       \/ /\ st.kind = String /\ st.kinderr = "nil" /\ st.size = U64Of(1)
          /\ st.r.pos = Len(st.r.data)

\* neither the input limit nor an open list ends before the byte that the
\* header of st announces
RoomForContent(st) ==
    /\ ~st.limited
    /\ Len(st.stack) > 0 =>
          ~U64Lt(st.stack[Len(st.stack)], U64Of(IF st.kind < 0 THEN 2 ELSE 1))

\* the input limit of st ends with the input, outside of any list
LimitAtEndOfInput(st) ==
    /\ st.limited /\ Len(st.stack) = 0
    /\ st.remaining = U64Of(ReaderLen(st.r))

SizeErrors == {"ErrUnexpectedEOF", "ErrValueTooLarge", "ErrElemTooLarge", "EOL"}

----------------------------------------------------------------------------
(* The list decoders called on a Stream inside of open lists: Stream.List  *)
(* enters a list, Stream.Decode decodes an element of it into a slice, an  *)
(* array, a struct or an interface{}                                       *)

\* the target types: slices, an array, structs without and with optional
\* fields, a struct that holds a slice, and interface{}
ListTypes ==
    <<SliceT(UintT(16)), SliceT(SliceT(UintT(16))), ArrayT(1, BytesT),
      StructT(<<UintT(8), BytesT>>, 2), StructT(<<UintT(8), BytesT>>, 1),
      StructT(<<SliceT(UintT(16)), UintT(8)>>, 1), InterfaceT>>

\* header and payload bytes of the inputs: a single byte, the empty string,
\* the empty list, lists of one, two and three payload bytes
ListAlphabet == {1, 128, 192, 193, 194, 195}

\* lists that hold a list of two elements, and a list after a list
ListInputs ==
    SeqsUpTo(ListAlphabet, MaxStreamLen)
    \cup {<<196, 194, 1, 128, 1>>, <<196, 193, 1, 193, 1>>, <<196, 195, 192, 1, 1>>}

ListDecodeInit ==
    /\ EncIdle /\ CodecIdle
    /\ \E data \in ListInputs : \E known \in BOOLEAN :
          /\ s = NewStream(NewReader(data, known), 0)
          /\ last = [op |-> "Reset", err |-> "nil", pre |-> Pre(ZeroStream),
                     L |-> IF known THEN Len(data) ELSE -1]
    /\ opened = <<>>

\* the value in front of the stream st is a list: by the cached kind, or else
\* by the header at the reader's position
ListAhead(st) ==
    IF st.kind >= 0 THEN st.kinderr = "nil" /\ st.kind = List
    ELSE HeaderAt(st, st.r.pos).err = "nil" /\ HeaderAt(st, st.r.pos).k = List

\* the bytes of the value in front of st that the stream has not counted yet:
\* the content when the header is cached, header and content otherwise
BytesAhead(st) ==
    IF st.kind >= 0 THEN st.size
    ELSE U64Of(HeaderAt(st, st.r.pos).tagsize
               + U64ToNat(HeaderAt(st, st.r.pos).contentsize))

\* Stream.Decode(val) for a val of list type
ListDecode ==
    \E i \in 1..Len(ListTypes) :
       /\ s' = Decode(s, ListTypes[i]).s
       /\ last' = [op |-> "Decode", err |-> Decode(s, ListTypes[i]).err,
                   pre |-> Pre(s), L |-> last.L, typ |-> ListTypes[i],
                   list |-> ListAhead(s), ahead |-> BytesAhead(s), stack |-> s.stack]
       /\ UNCHANGED <<opened, encVars, codecVars>>

\* Stream.List(), Stream.ListEnd(), Stream.Kind() and Stream.Bytes() between
\* the calls of Decode
ListDecodeStep(op, r) ==
    /\ s' = r.s
    /\ last' = Did(op, r.err)
    /\ UNCHANGED <<opened, encVars, codecVars>>

ListDecodeList == ListDecodeStep("List", List_(s))

ListDecodeListEnd == ListDecodeStep("ListEnd", ListEnd(s))

ListDecodeKind == ListDecodeStep("Kind", Kind(s))

ListDecodeBytes == ListDecodeStep("Bytes", Bytes(s))

ListDecodeNext ==
    ListDecode \/ ListDecodeList \/ ListDecodeListEnd \/ ListDecodeKind \/ ListDecodeBytes

SpecListDecode == ListDecodeInit /\ [][ListDecodeNext]_vars

----------------------------------------------------------------------------
(* typecache.go: the type cache theTC used by several goroutines. cin is   *)
(* the typeCache (cur, next, mu), the typeinfo values it has allocated and *)
(* the calls of infoWhileGenerating in progress; cout holds for every      *)
(* goroutine its position in typeCache.info and the entry returned to it   *)

\* bound: number of calls of theTC.info, of all goroutines together
MaxCalls == 3

\* the goroutines
Goroutines == {1, 2}

\* the types of the keys, with the types that the coder of each is built from:
\*   type T struct { Next *T; Bad int }
\*   type A struct { B *B; N uint }      type B struct { A *A }
TypeGraph ==
    [uint |-> [kind |-> "uint", elems |-> <<>>],
     int  |-> [kind |-> "int", elems |-> <<>>],
     T    |-> [kind |-> "struct", elems |-> <<"PtrT", "int">>],
     PtrT |-> [kind |-> "ptr", elems |-> <<"T">>],
     A    |-> [kind |-> "struct", elems |-> <<"PtrB", "uint">>],
     PtrB |-> [kind |-> "ptr", elems |-> <<"B">>],
     B    |-> [kind |-> "struct", elems |-> <<"PtrA">>],
     PtrA |-> [kind |-> "ptr", elems |-> <<"A">>]]

\* the keys of the cache (the tags of all of these are empty)
TypeKeys == DOMAIN TypeGraph

\* make(map[typekey]*typeinfo): no key has an entry (0 stands for nil)
EmptyMap == [k \in TypeKeys |-> 0]

\* new(typeinfo) for a key: no coder and no error is set
NewTypeinfo(key) ==
    [key |-> key, decoder |-> FALSE, decoderErr |-> "nil",
     writer |-> FALSE, writerErr |-> "nil"]

\* newTypeCache()
newTypeCache ==
    [cur |-> EmptyMap, next |-> EmptyMap, hasNext |-> FALSE, mu |-> 0,
     heap |-> <<>>, stack |-> <<>>]

\* variant of infoWhileGenerating that does not look for the key in c.next
infoWhileGenerating_NoLookup(c, key) ==
    [c EXCEPT !.heap = Append(@, NewTypeinfo(key)),
              !.next[key] = Len(c.heap) + 1,
              !.stack = Append(@, [key |-> key, id |-> Len(c.heap) + 1,
                                   phase |-> "decoder", i |-> 1])]

\* typeCache.infoWhileGenerating(typ, tags) up to the call of info.generate:
\* the entry of c.next, or else a new entry that is put into c.next before
\* its coders are made
infoWhileGenerating(c, key) ==
    IF c.next[key] # 0 THEN c
    ELSE [c EXCEPT !.heap = Append(@, NewTypeinfo(key)),
                   !.next[key] = Len(c.heap) + 1,
                   !.stack = Append(@, [key |-> key, id |-> Len(c.heap) + 1,
                                        phase |-> "decoder", i |-> 1])]

\* the error that makeDecoder (phase "decoder") or makeWriter (phase "writer")
\* returns for the key: the kind is not serializable, or the entry of an
\* element or field, as it is now, holds an error
makeError(c, key, phase) ==
    \/ TypeGraph[key].kind = "int"
    \/ \E j \in 1..Len(TypeGraph[key].elems) :
          IF phase = "decoder"
          THEN c.heap[c.next[TypeGraph[key].elems[j]]].decoderErr # "nil"
          ELSE c.heap[c.next[TypeGraph[key].elems[j]]].writerErr # "nil"

\* variant of generateCopy that starts from an empty map
generateCopy_Empty(c) == [c EXCEPT !.next = EmptyMap, !.hasNext = TRUE]

\* typeCache.generate: copy cur to next
generateCopy(c) == [c EXCEPT !.next = c.cur, !.hasNext = TRUE]

\* typeinfo.generate for the call on top of the stack: i.decoder, i.decoderErr
\* = makeDecoder(typ, tags), then i.writer, i.writerErr = makeWriter(typ, tags),
\* then the return to the caller
typeinfoGenerate(c, f) ==
    IF f.phase = "decoder"
    THEN [c EXCEPT !.heap[f.id].decoder = ~makeError(c, f.key, "decoder"),
                   !.heap[f.id].decoderErr =
                        IF makeError(c, f.key, "decoder") THEN "error" ELSE "nil",
                   !.stack[Len(c.stack)] = [f EXCEPT !.phase = "writer", !.i = 1]]
    ELSE [c EXCEPT !.heap[f.id].writer = ~makeError(c, f.key, "writer"),
                   !.heap[f.id].writerErr =
                        IF makeError(c, f.key, "writer") THEN "error" ELSE "nil",
                   !.stack = Take(c.stack, Len(c.stack) - 1)]

\* one step of makeDecoder / makeWriter for the call f on top of the stack:
\* theTC.infoWhileGenerating for the next element or field, or the result
makeStep(c, f) ==
    IF f.i <= Len(TypeGraph[f.key].elems)
    THEN infoWhileGenerating([c EXCEPT !.stack[Len(c.stack)].i = f.i + 1],
                             TypeGraph[f.key].elems[f.i])
    ELSE typeinfoGenerate(c, f)

\* variant of infoLookup that also looks into the working map c.next
infoLookup_Next(c, key) == IF c.cur[key] # 0 THEN c.cur[key] ELSE c.next[key]

\* typeCache.info: c.cur.Load().(map[typekey]*typeinfo)[key]
infoLookup(c, key) == c.cur[key]

TCInit ==
    /\ StreamIdle /\ EncIdle
    /\ cin = newTypeCache
    /\ cout = [p \in Goroutines |-> [pc |-> "idle", typ |-> "uint", ret |-> 0, calls |-> 0]]

\* a goroutine calls theTC.info(typ) (cachedWriter, cachedDecoder)
TCCall(p) ==
    /\ cout[p].pc = "idle" /\ cout[1].calls + cout[2].calls < MaxCalls
    /\ \E typ \in TypeKeys :
          cout' = [cout EXCEPT ![p] = [pc |-> "info", typ |-> typ, ret |-> 0,
                                       calls |-> cout[p].calls + 1]]
    /\ UNCHANGED <<cin, streamVars, encVars>>

\* typeCache.info: c.cur.Load(), return the entry or go on to c.generate
TCInfo(p) ==
    /\ cout[p].pc = "info"
    /\ cout' = [cout EXCEPT ![p] =
                   IF infoLookup(cin, cout[p].typ) # 0
                   THEN [@ EXCEPT !.pc = "idle", !.ret = infoLookup(cin, cout[p].typ)]
                   ELSE [@ EXCEPT !.pc = "lock"]]
    /\ UNCHANGED <<cin, streamVars, encVars>>

\* typeCache.generate: c.mu.Lock()
TCLock(p) ==
    /\ cout[p].pc = "lock" /\ cin.mu = 0
    /\ cin' = [cin EXCEPT !.mu = p]
    /\ cout' = [cout EXCEPT ![p].pc = "generate"]
    /\ UNCHANGED <<streamVars, encVars>>

\* typeCache.generate: c.cur.Load(), return the entry, or copy cur to next
\* and call c.infoWhileGenerating(typ, tags)
TCGenerate(p) ==
    /\ cout[p].pc = "generate"
    /\ IF cin.cur[cout[p].typ] # 0
       THEN /\ cout' = [cout EXCEPT ![p].pc = "unlock", ![p].ret = cin.cur[cout[p].typ]]
            /\ cin' = cin
       ELSE /\ cout' = [cout EXCEPT ![p].pc = "building"]
            /\ cin' = infoWhileGenerating(generateCopy(cin), cout[p].typ)
    /\ UNCHANGED <<streamVars, encVars>>

\* a step of the generation in progress
TCBuild(p) ==
    /\ cout[p].pc = "building" /\ cin.stack # <<>>
    /\ cin' = makeStep(cin, cin.stack[Len(cin.stack)])
    /\ UNCHANGED <<cout, streamVars, encVars>>

\* typeCache.generate: c.cur.Store(c.next)
TCStore(p) ==
    /\ cout[p].pc = "building" /\ cin.stack = <<>>
    /\ cin' = [cin EXCEPT !.cur = cin.next]
    /\ cout' = [cout EXCEPT ![p].pc = "clear"]
    /\ UNCHANGED <<streamVars, encVars>>

\* typeCache.generate: c.next = nil; return info
TCClear(p) ==
    /\ cout[p].pc = "clear"
    /\ cout' = [cout EXCEPT ![p].pc = "unlock", ![p].ret = cin.next[cout[p].typ]]
    /\ cin' = [cin EXCEPT !.next = EmptyMap, !.hasNext = FALSE]
    /\ UNCHANGED <<streamVars, encVars>>

\* typeCache.generate: the deferred c.mu.Unlock(), and the return to the caller
TCUnlock(p) ==
    /\ cout[p].pc = "unlock"
    /\ cin' = [cin EXCEPT !.mu = 0]
    /\ cout' = [cout EXCEPT ![p].pc = "idle"]
    /\ UNCHANGED <<streamVars, encVars>>

\* the steps of a goroutine other than the wait for the mutex
TCStep(p) ==
    TCCall(p) \/ TCInfo(p) \/ TCGenerate(p) \/ TCBuild(p) \/ TCStore(p)
    \/ TCClear(p) \/ TCUnlock(p)

TCNext == \E p \in Goroutines : TCStep(p) \/ TCLock(p)

SpecTypeCache == TCInit /\ [][TCNext]_vars


----------------------------------------------------------------------------
(* Claims about the type cache *)

\* makeDecoder and makeWriter have returned for the entry e: each coder is
\* set or its error is
Complete(e) ==
    /\ e.decoder \/ e.decoderErr # "nil"
    /\ e.writer \/ e.writerErr # "nil"

\* the entry of the key, which is the same in c.cur and c.next if in both
EntryOf(c, key) == IF c.cur[key] # 0 THEN c.cur[key] ELSE c.next[key]

\* the entries that the coders of the entry id call: those of the elements and
\* fields of its type, if a coder was made
Invokes(c, id) ==
    IF c.heap[id].decoder \/ c.heap[id].writer
    THEN {EntryOf(c, TypeGraph[c.heap[id].key].elems[j]) :
             j \in 1..Len(TypeGraph[c.heap[id].key].elems)}
    ELSE {}

\* the entries reached from the entries ids through the calls of coders
RECURSIVE InvokesAll(_, _)
InvokesAll(c, ids) ==
    IF (UNION {Invokes(c, id) : id \in ids}) \subseteq ids THEN ids
    ELSE InvokesAll(c, ids \cup UNION {Invokes(c, id) : id \in ids})

\* the entries that code outside of the mutex can hold: the ones in the
\* snapshot c.cur and the ones that info has returned
Published(c) == {c.cur[k] : k \in TypeKeys} \ {0}

Returned == {cout[p].ret : p \in {q \in Goroutines : cout[q].pc = "idle"}} \ {0}

\* C26: under every interleaving, an entry returned by info or found in the
\* snapshot is complete, and so is every entry its coders call; the snapshot
\* is replaced only when no call of infoWhileGenerating is in progress and
\* every entry of the new one is complete; and info returns an entry of the
\* snapshot without taking the mutex.
C26_NoPlaceholderObserved ==
    /\ [](\A id \in InvokesAll(cin, Published(cin) \cup Returned) :
             id # 0 /\ Complete(cin.heap[id]))
    /\ [][cin'.cur # cin.cur =>
             /\ cin.stack = <<>> /\ cin'.cur = cin.next
             /\ \A k \in TypeKeys : cin.next[k] # 0 => Complete(cin.heap[cin.next[k]])]_vars
    /\ [][\A p \in Goroutines :
             cout[p].pc = "info" /\ cin.cur[cout[p].typ] # 0 /\ cout'[p] # cout[p]
                => cout'[p].pc = "idle" /\ cout'[p].ret = cin.cur[cout[p].typ]
                   /\ cin' = cin]_vars

\* a goroutine got the entry of a recursive type from the snapshot while the
\* other one holds the mutex and has allocated entries that are not complete
C26_Witness ==
    \E p \in Goroutines : \E q \in Goroutines :
       /\ cout[p].pc = "idle" /\ cout[p].ret # 0 /\ cout[p].typ = "A"
       /\ cin.heap[cout[p].ret].writer
       /\ cout[q].pc = "building"
       /\ \E id \in 1..Len(cin.heap) : ~Complete(cin.heap[id])
       /\ cout[p].calls = 2


\* C27: at most one entry is allocated for a key, all callers of info for a
\* key get the same entry, an entry that is in the snapshot or was returned
\* keeps its fields, and every snapshot holds the keys of the one before it
\* with the same entries.
C27_UniqueAndImmutable ==
    /\ [](\A i \in 1..Len(cin.heap) : \A j \in 1..Len(cin.heap) :
             cin.heap[i].key = cin.heap[j].key => i = j)
    /\ [](\A p \in Goroutines : \A q \in Goroutines :
             cout[p].ret # 0 /\ cout[q].ret # 0 /\ cout[p].typ = cout[q].typ
                => cout[p].ret = cout[q].ret)
    /\ [](\A p \in Goroutines :
             cout[p].ret # 0 => cin.heap[cout[p].ret].key = cout[p].typ)
    /\ [][\A id \in Published(cin) \cup Returned : cin'.heap[id] = cin.heap[id]]_vars
    /\ [][\A k \in TypeKeys : cin.cur[k] # 0 => cin'.cur[k] = cin.cur[k]]_vars

\* both goroutines asked for a key that was not in the snapshot: one of them
\* built the entry and returned, the other one waited for the mutex and found
\* the same entry in the snapshot when it held the mutex
C27_Witness ==
    /\ cout[1].ret # 0 /\ cout[1].ret = cout[2].ret
    /\ cout[1].typ = "PtrA" /\ cout[1].calls = 1 /\ cout[2].calls = 1
    /\ cout[1].pc = "idle" /\ cout[2].pc = "unlock"

----------------------------------------------------------------------------
(* The type cache with the scheduling of the goroutines: a goroutine that  *)
(* can take a step takes one, and a goroutine that waits for the mutex     *)
(* gets it when it is unlocked again and again (sync.Mutex hands the mutex *)
(* to a waiter that has been starved)                                      *)

SpecTypeCacheLive ==
    /\ TCInit /\ [][TCNext]_vars
    /\ \A p \in Goroutines : WF_vars(TCStep(p)) /\ SF_vars(TCLock(p))

\* the keys of the calls of infoWhileGenerating in progress
StackKeys(c) == [j \in 1..Len(c.stack) |-> c.stack[j].key]

\* C28: every call of info returns, also for the types that refer to
\* themselves. While coders are built no key is under construction twice and
\* every key that was looked up or allocated is in the working map; the
\* goroutine that holds the mutex does not wait for it; and the working map
\* is empty whenever no goroutine holds the mutex.
C28_GenerationTerminates ==
    /\ \A p \in Goroutines : (cout[p].pc # "idle") ~> (cout[p].pc = "idle")
    /\ [](\A i \in 1..Len(cin.stack) : \A j \in 1..Len(cin.stack) :
             cin.stack[i].key = cin.stack[j].key => i = j)
    /\ [](\A j \in 1..Len(cin.stack) : cin.next[cin.stack[j].key] = cin.stack[j].id)
    /\ [](\A p \in Goroutines : cin.mu = p => cout[p].pc \notin {"idle", "info", "lock"})
    /\ [](cin.mu = 0 => ~cin.hasNext /\ cin.next = EmptyMap /\ cin.stack = <<>>)

\* the entry of the struct T that refers to itself was built and returned, and
\* so was the one of A, which refers to itself through B
C28_Witness ==
    /\ cout[1].pc = "idle" /\ cout[1].typ = "T" /\ cout[1].ret # 0
    /\ cout[2].pc = "idle" /\ cout[2].typ = "A" /\ cout[2].ret # 0
    /\ Complete(cin.heap[cout[1].ret]) /\ Complete(cin.heap[cout[2].ret])
    /\ Len(cin.heap) = 8


----------------------------------------------------------------------------
(* Build errors in the snapshot of the type cache *)

\* the entries of the elements and fields of the type of the entry id
ElemEntries(c, id) ==
    {EntryOf(c, TypeGraph[c.heap[id].key].elems[j]) :
        j \in 1..Len(TypeGraph[c.heap[id].key].elems)}

\* C30: when the build of a key has failed, every entry of the snapshot whose
\* coder calls the coder of that key holds a build error as well, so that no
\* entry without a build error calls a coder that is not set.
C30_BuildErrorsPropagate ==
    \A id \in Published(cin) : \A el \in ElemEntries(cin, id) :
       /\ cin.heap[el].writerErr # "nil" => cin.heap[id].writerErr # "nil"
       /\ cin.heap[el].decoderErr # "nil" => cin.heap[id].decoderErr # "nil"
       /\ cin.heap[id].writer => cin.heap[el].writer
       /\ cin.heap[id].decoder => cin.heap[el].decoder

\* the same for the entries that were complete when the coder that calls
\* them was made: all but the ones that were under construction then, which
\* are the ones allocated earlier
C30_CompleteErrorsPropagate ==
    \A id \in Published(cin) : \A el \in ElemEntries(cin, id) :
       el > id =>
          /\ cin.heap[el].writerErr # "nil" => cin.heap[id].writerErr # "nil"
          /\ cin.heap[el].decoderErr # "nil" => cin.heap[id].decoderErr # "nil"
          /\ cin.heap[id].writer => cin.heap[el].writer
          /\ cin.heap[id].decoder => cin.heap[el].decoder

\* the snapshot holds the entry of *T without an error and the entry of T
\* with one
C30_Witness ==
    /\ cin.cur["PtrT"] # 0 /\ cin.cur["T"] # 0
    /\ cin.heap[cin.cur["PtrT"]].writer
    /\ cin.heap[cin.cur["T"]].writerErr # "nil"


----------------------------------------------------------------------------
(* Objects that are used again: a Stream that is Reset after it was used,  *)
(* and an encBuffer that comes out of encBufferPool after it was used. A   *)
(* behaviour uses one of the two. s is the Stream, cin the results of its  *)
(* calls next to the results that a new Stream gives for the same calls;   *)
(* buf is the buffer in the pool, cout the result of EncodeToBytes with it *)
(* next to the result with a new buffer. cin.used tells what the Stream    *)
(* held when it was Reset                                                  *)

\* the inputs of the first use: values that end early, lists that are left
\* open, and a long string that leaves a size and a kind error behind
FirstInputs ==
    {<<129>>, <<194, 1, 1>>, <<193, 193, 1>>, <<195, 193>>, <<184, 1, 1>>, <<1, 1>>}

\* header and payload bytes of the inputs of the second use
RecycleAlphabet == {1, 129, 193, 194}

\* the calls made on the streams
StreamCalls == {"Kind", "Bytes", "Uint", "Raw", "List", "ListEnd"}

\* the result of a call on the stream st
StreamCall(op, st) ==
    CASE op = "Kind" -> Kind(st)
      [] op = "Bytes" -> Bytes(st)
      [] op = "Uint" -> uint(st, 64)
      [] op = "Raw" -> Raw(st)
      [] op = "List" -> List_(st)
      [] OTHER -> ListEnd(st)

\* what calls can tell about the stream st: all fields, but the remaining
\* input limit only if there is a limit
Observable(st) == IF st.limited THEN st ELSE [st EXCEPT !.remaining = U64Zero]

\* the result r of a call, with what the stream shows after it
Observed(r) == [r EXCEPT !.s = Observable(r.s)]

\* values whose writer fails after it has opened lists and written bytes
RecycleFailing ==
    {<<SliceT(SliceT(BigIntT)), <<<<BigInt(FALSE, <<1>>)>>, <<BigInt(TRUE, <<1>>)>>>>>>}

\* the values that are encoded, as pairs of a type and a value of it
RecycleValues ==
    ({UintT(64)} \X {U64Of(0), U64Of(1024)})
    \cup ({SliceT(UintT(64))} \X SeqsUpTo({U64Of(1), U64Of(128)}, MaxElems))
    \cup ({StructT(<<UintT(64), UnsupportedT>>, 2)} \X {<<U64Of(1), <<>>>>})
    \cup RecycleFailing

RecycleInit == StreamIdle /\ EncIdle /\ CodecIdle

\* the decoding side is untouched
NoStreamUse == s = ZeroStream /\ cin.op = "none"

\* the encoding side is untouched
NoBufferUse == buf = EmptyBuf /\ cout.op = "none"

\* the first use of the Stream: Reset(r, inputLimit)
RecycleFirstReset ==
    /\ NoBufferUse /\ NoStreamUse
    /\ \E data \in FirstInputs : \E known \in BOOLEAN : \E lim \in 0..MaxLimit :
          /\ lim > 0 => ~known
          /\ s' = Reset(s, NewReader(data, known), lim)
    /\ UNCHANGED <<opened, last, encVars, codecVars>>

\* a call on the Stream in its first use
RecycleFirstUse ==
    /\ NoBufferUse /\ s # ZeroStream /\ cin.op = "none"
    /\ \E op \in StreamCalls : s' = StreamCall(op, s).s
    /\ UNCHANGED <<opened, last, encVars, codecVars>>

\* Reset(r, inputLimit) of the used Stream, next to NewStream(r, inputLimit)
RecycleReset ==
    /\ NoBufferUse /\ s # ZeroStream /\ cin.op = "none"
    /\ \E data \in SeqsUpTo(RecycleAlphabet, MaxStreamLen) :
       \E known \in BOOLEAN : \E lim \in 0..MaxLimit :
          /\ lim > 0 => ~known
          /\ s' = Reset(s, NewReader(data, known), lim)
          /\ cin' = [op |-> "Reset", s |-> NewStream(NewReader(data, known), lim),
                     used |-> [open |-> Len(s.stack) > 0, kinderr |-> s.kinderr # "nil",
                               limited |-> s.limited],
                     pooled |-> [s |-> Observable(Reset(s, NewReader(data, known), lim))],
                     fresh |-> [s |-> Observable(NewStream(NewReader(data, known), lim))]]
    /\ UNCHANGED <<opened, last, encVars, cout>>

\* the same call on the Stream that was Reset and on the new one
RecycleCall ==
    /\ cin.op # "none"
    /\ \E op \in StreamCalls :
          /\ s' = StreamCall(op, s).s
          /\ cin' = [op |-> op, s |-> StreamCall(op, cin.s).s, used |-> cin.used,
                     pooled |-> Observed(StreamCall(op, s)),
                     fresh |-> Observed(StreamCall(op, cin.s))]
    /\ UNCHANGED <<opened, last, encVars, cout>>

\* the buffer is used through an EncoderBuffer and put into the pool by
\* Flush: WriteBytes, List, ListEnd of the innermost list, or an Encode
RecycleBufferUse ==
    /\ NoStreamUse /\ cout.op = "none" /\ ref.n < MaxEncOps
    /\ \/ \E x \in {<<5>>, Fill(55, 7)} : buf' = writeBytes(buf, x) /\ lstack' = lstack
       \/ buf' = list(buf) /\ lstack' = Append(lstack, Len(buf.lheads))
       \/ /\ lstack # <<>>
          /\ buf' = listEnd(buf, lstack[Len(lstack)])
          /\ lstack' = Take(lstack, Len(lstack) - 1)
       \/ \E in \in RecycleFailing :
             buf' = [encode(buf, in[1], in[2]) EXCEPT !.werr = NoErr] /\ lstack' = lstack
    /\ ref' = [ref EXCEPT !.n = @ + 1]
    /\ UNCHANGED <<er, streamVars, codecVars>>

\* EncodeToBytes(val) with the buffer of the pool, next to EncodeToBytes(val)
\* with a buffer that the pool has allocated
RecycleEncodeToBytes ==
    /\ NoStreamUse /\ cout.op = "none"
    /\ \E in \in RecycleValues :
          cout' = [op |-> "EncodeToBytes", typ |-> in[1], v |-> in[2], used |-> buf,
                   pooled |-> EncodeToBytesOn(encode(getEncBuffer(buf), in[1], in[2])),
                   fresh |-> EncodeToBytesOn(encode(getEncBuffer(EmptyBuf), in[1], in[2]))]
    /\ UNCHANGED <<cin, streamVars, encVars>>

RecycleNext ==
    \/ RecycleFirstReset \/ RecycleFirstUse \/ RecycleReset \/ RecycleCall
    \/ RecycleBufferUse \/ RecycleEncodeToBytes

SpecRecycle == RecycleInit /\ [][RecycleNext]_vars

\* C29: a Stream that was Reset returns for every sequence of calls what a new
\* Stream returns and shows the same state, whatever its earlier use has left
\* behind; and EncodeToBytes returns the same bytes and the same error with a
\* used buffer of the pool as with a new one.
C29_RecycledStartClean ==
    /\ cin.op # "none" => cin.pooled = cin.fresh
    /\ cout.op = "EncodeToBytes" => cout.pooled = cout.fresh

\* a Stream with a limit, an open list and a cached kind error was Reset to
\* read without a limit and has returned the second value of the new input
C29_Witness ==
    /\ cin.op = "Bytes" /\ cin.fresh.err = "nil" /\ cin.fresh.b = <<1>>
    /\ s.r.pos = 2 /\ ~s.limited
    /\ cin.used.open /\ cin.used.kinderr /\ cin.used.limited

\* a buffer with two list headers, one of them open, was taken from the pool
\* and has encoded a list
C29_WitnessBuffer ==
    /\ cout.op = "EncodeToBytes" /\ cout.fresh.err = NoErr
    /\ Len(cout.used.lheads) = 2 /\ cout.used.lhsize > 0 /\ lstack # <<>>
    /\ Len(cout.fresh.b) > 2

================================================================
